---- MODULE Spec2Model ----
(***************************************************************************)
(* Financial agent backend: the period resolver (get_date_range), the     *)
(* five financial tools over the end_user_payments table and the agent    *)
(* orchestrator (FinancialAgentService.ask).                               *)
(*                                                                         *)
(* Conventions.  Text is a sequence of string pieces, so that an f-string  *)
(* is the concatenation of its parts.  An optional value is a record with  *)
(* an isNone flag.  A call's outcome is a record with ok = TRUE and a      *)
(* value, or ok = FALSE and the exception class and message it raised.     *)
(* Money is a whole number of cents.                                       *)
(***************************************************************************)
EXTENDS Integers, Sequences, FiniteSets, TLC

VARIABLES
    now,         \* the wall clock read by datetime.now()
    dateCalls,   \* period token -> outcome of get_date_range(token) at `now`
    table,       \* the rows of end_user_payments
    tcall,       \* the tool call in progress: tool name and keyword arguments
    tphase,      \* "idle", "query" (awaiting the database) or "done"
    tquery,      \* the query the tool awaits
    tout,        \* the tool call's outcome
    dbLog,       \* the queries issued to the database by the current call
    pc,          \* ask: "idle", "plan" (awaiting the LLM), "loop", "tool"
                 \* (awaiting a tool's query) or "done"
    reqPhone,    \* ask: the caller's consumer_phone_number (str | None)
    parsed,      \* ask: parsed_response
    idx,         \* ask: position in the plan of the next entry
    tool_calls,  \* ask: the ToolCall records appended so far
    response,    \* ask: what the call returned or raised
    events,      \* ask: the _execute_tool calls begun and ended, in order
    llmOut,      \* ask: what the chat-completion call did
    llmCalls,    \* ask: chat-completion calls made by the request
    chatPc,      \* AIService.chat behind POST /ai/chat: "idle", "await" (the
                 \* provider), "done" (chat returned or raised), "responded"
    chatMsg,     \* chat: the message
    chatProv,    \* chat: what the provider call did
    chatRes,     \* chat: what chat returned or raised
    httpResp,    \* chat: the HTTP response
    fmtPc,       \* format_response_naturally: "idle", "await" (the LLM), "done"
    fmtIn,       \* format_response_naturally: the structured answer passed in
    fmtArg,      \* format_response_naturally: that object as it is now
    fmtLlm,      \* format_response_naturally: what the chat-completion call did
    fmtOut,      \* format_response_naturally: what it returned or raised
    serPc,       \* _serialize_result on its own: "idle", "once", "twice"
    serIn,       \* _serialize_result: the result passed in
    serOut       \* _serialize_result: what the last application returned

dateVars == <<dateCalls>>
toolVars == <<table, tcall, tphase, tquery, tout, dbLog>>
askVars == <<pc, reqPhone, parsed, idx, tool_calls, response, events, llmOut,
            llmCalls>>
chatVars == <<chatPc, chatMsg, chatProv, chatRes, httpResp>>
fmtVars == <<fmtPc, fmtIn, fmtArg, fmtLlm, fmtOut>>
serVars == <<serPc, serIn, serOut>>
otherVars == <<chatVars, fmtVars, serVars>>
vars == <<now, dateCalls, table, tcall, tphase, tquery, tout, dbLog,
          pc, reqPhone, parsed, idx, tool_calls, response, events, llmOut,
          llmCalls, chatPc, chatMsg, chatProv, chatRes, httpResp,
          fmtPc, fmtIn, fmtArg, fmtLlm, fmtOut, serPc, serIn, serOut>>

-----------------------------------------------------------------------------
(* Bounds *)

\* nesting depth of the results handed to _serialize_result on its own
MaxDepth == 2

\* The clock ranges over the years 2023 .. 2023 + MaxYearOffset (2024 is a
\* leap year) and over the century years 2000 (leap) and 2100 (not leap).
MaxYearOffset == 1

\* A payments table holds at most MaxRows of the rows of AllRows.
MaxRows == 3

\* A plan returned by the LLM has at most MaxPlanLen entries.
MaxPlanLen == 2

-----------------------------------------------------------------------------
(* datetime *)

NoDate == [y |-> 0, mo |-> 0, d |-> 0, h |-> 0, mi |-> 0, s |-> 0, us |-> 0]

IsLeap(y) == (y % 4 = 0) /\ ((y % 100 # 0) \/ (y % 400 = 0))

DaysInMonth(y, mo) ==
    IF mo = 2 THEN (IF IsLeap(y) THEN 29 ELSE 28)
    ELSE IF mo \in {4, 6, 9, 11} THEN 30 ELSE 31

\* datetime's constructor check: replace() raises ValueError otherwise
DtValid(dt) ==
    /\ dt.y >= 1
    /\ dt.mo \in 1..12
    /\ dt.d >= 1 /\ dt.d <= DaysInMonth(dt.y, dt.mo)
    /\ dt.h \in 0..23 /\ dt.mi \in 0..59 /\ dt.s \in 0..59
    /\ dt.us \in 0..999999

\* dt - timedelta(days=1)
MinusOneDay(dt) ==
    IF dt.d > 1 THEN [dt EXCEPT !.d = dt.d - 1]
    ELSE IF dt.mo > 1
         THEN [dt EXCEPT !.mo = dt.mo - 1, !.d = DaysInMonth(dt.y, dt.mo - 1)]
         ELSE [dt EXCEPT !.y = dt.y - 1, !.mo = 12, !.d = 31]

\* a < b and a <= b on datetimes
DtLT(a, b) ==
    \/ a.y < b.y
    \/ a.y = b.y /\ a.mo < b.mo
    \/ a.y = b.y /\ a.mo = b.mo /\ a.d < b.d
    \/ a.y = b.y /\ a.mo = b.mo /\ a.d = b.d /\ a.h < b.h
    \/ a.y = b.y /\ a.mo = b.mo /\ a.d = b.d /\ a.h = b.h /\ a.mi < b.mi
    \/ a.y = b.y /\ a.mo = b.mo /\ a.d = b.d /\ a.h = b.h /\ a.mi = b.mi
       /\ a.s < b.s
    \/ a.y = b.y /\ a.mo = b.mo /\ a.d = b.d /\ a.h = b.h /\ a.mi = b.mi
       /\ a.s = b.s /\ a.us < b.us

DtLE(a, b) == a = b \/ DtLT(a, b)

StartOfDay(dt) == [dt EXCEPT !.h = 0, !.mi = 0, !.s = 0, !.us = 0]
EndOfDay(dt) == [dt EXCEPT !.h = 23, !.mi = 59, !.s = 59, !.us = 999999]

-----------------------------------------------------------------------------
(* Outcomes *)

Raise(exc, msg) == [ok |-> FALSE, exc |-> exc, msg |-> msg]

RangeOk(start, end) ==
    [ok |-> TRUE, exc |-> "", msg |-> <<>>, start |-> start, end |-> end]
RangeRaise(exc, msg) ==
    [ok |-> FALSE, exc |-> exc, msg |-> msg, start |-> NoDate, end |-> NoDate]

PeriodTokens == {"this_month", "last_month", "this_year", "last_year", "all_time"}

UnknownPeriodMsg(period) ==
    <<"Unknown period: ", period, ". ", "Valid options: ", "this_month", ", ",
      "last_month", ", ", "this_year", ", ", "last_year", ", ", "all_time">>

ReplaceErr == RangeRaise("ValueError", <<"day is out of range for month">>)

\* this_month without the December branch: replace(month=13) raises
ThisMonthRange_NoDecember(n) ==
    LET next_month == [n EXCEPT !.mo = n.mo + 1, !.d = 1]
    IN  IF ~DtValid(next_month) THEN ReplaceErr
        ELSE RangeOk(StartOfDay([n EXCEPT !.d = 1]),
                     EndOfDay(MinusOneDay(next_month)))

ThisMonthRange(n) ==
    LET start == StartOfDay([n EXCEPT !.d = 1])
    IN  IF n.mo = 12
        THEN RangeOk(start, EndOfDay([n EXCEPT !.d = 31]))
        ELSE LET next_month == [n EXCEPT !.mo = n.mo + 1, !.d = 1]
             IN  IF ~DtValid(next_month) THEN ReplaceErr
                 ELSE RangeOk(start, EndOfDay(MinusOneDay(next_month)))

\* last_month taken as "same day number, one month back"
LastMonthRange_SameDay(n) ==
    LET prev == IF n.mo = 1 THEN [n EXCEPT !.y = n.y - 1, !.mo = 12]
                ELSE [n EXCEPT !.mo = n.mo - 1]
    IN  IF ~DtValid(prev) THEN ReplaceErr
        ELSE RangeOk(StartOfDay([prev EXCEPT !.d = 1]),
                     EndOfDay([prev EXCEPT !.d = DaysInMonth(prev.y, prev.mo)]))

LastMonthRange(n) ==
    LET first_of_this_month == StartOfDay([n EXCEPT !.d = 1])
        end == EndOfDay(MinusOneDay(first_of_this_month))
        start == StartOfDay([end EXCEPT !.d = 1])
    IN  RangeOk(start, end)

ThisYearRange(n) ==
    LET start == StartOfDay([n EXCEPT !.mo = 1, !.d = 1])
        end == EndOfDay([n EXCEPT !.mo = 12, !.d = 31])
    IN  RangeOk(start, end)

LastYearRange(n) ==
    LET start == StartOfDay([n EXCEPT !.y = n.y - 1, !.mo = 1, !.d = 1])
        end == EndOfDay([n EXCEPT !.y = n.y - 1, !.mo = 12, !.d = 31])
    IN  IF ~DtValid(start) THEN ReplaceErr ELSE RangeOk(start, end)

\* unknown token silently treated as all_time
UnknownPeriod_AllTime(period) == RangeOk(NoDate, NoDate)

UnknownPeriod(period) == RangeRaise("ValueError", UnknownPeriodMsg(period))

\* get_date_range(period), with datetime.now() = n
get_date_range(n, period) ==
    IF period = "all_time" THEN RangeOk(NoDate, NoDate)
    ELSE IF period = "this_month" THEN ThisMonthRange(n)
    ELSE IF period = "last_month" THEN LastMonthRange(n)
    ELSE IF period = "this_year" THEN ThisYearRange(n)
    ELSE IF period = "last_year" THEN LastYearRange(n)
    ELSE UnknownPeriod(period)

\* tokens a caller may pass: the five valid ones and two that are not
PeriodInputs == PeriodTokens \cup {"yesterday", "THIS_MONTH"}

NotCalled == [ok |-> FALSE, exc |-> "<not called>", msg |-> <<>>,
              start |-> NoDate, end |-> NoDate]

DateIdle == dateCalls = [p \in PeriodInputs |-> NotCalled]

\* a period label: literal text, or strftime("%B %Y") / str(year) given by the
\* month number (0: none) and the year (0: none)
Label(text, month, year) == [text |-> text, month |-> month, year |-> year]

\* format_period_name(period), with datetime.now() = n
format_period_name(n, period) ==
    IF period = "all_time" THEN Label("All Time", 0, 0)
    ELSE IF period = "this_month" THEN Label("", n.mo, n.y)
    ELSE IF period = "last_month"
         THEN LET last_month == MinusOneDay([n EXCEPT !.d = 1])
              IN  Label("", last_month.mo, last_month.y)
    ELSE IF period = "this_year" THEN Label("", 0, n.y)
    ELSE IF period = "last_year" THEN Label("", 0, n.y - 1)
    ELSE Label(period, 0, 0)

-----------------------------------------------------------------------------
(* Python values: what tools return and what the response carries *)

NoneV == [t |-> "None"]
Str(s) == [t |-> "str", s |-> s]
IntV(i) == [t |-> "int", i |-> i]
\* Decimal and float as exact fractions num/den (money: den = 100)
Dec(num, den) == [t |-> "Decimal", num |-> num, den |-> den]
Flt(num, den) == [t |-> "float", num |-> num, den |-> den]
Dtv(dt) == IF dt = NoDate THEN NoneV ELSE [t |-> "datetime", dt |-> dt]
IsoText(dt) == [t |-> "str", iso |-> dt]
Dict(f) == [t |-> "dict", f |-> f]
List(q) == [t |-> "list", q |-> q]
Money(cents) == Dec(cents, 100)

\* optional text argument (str | None)
None == [isNone |-> TRUE, s |-> <<>>]
Some(s) == [isNone |-> FALSE, s |-> s]
\* Python truthiness of a str | None
Truthy(o) == ~o.isNone /\ Len(o.s) > 0

RECURSIVE Gcd(_, _)
Gcd(a, b) == IF b = 0 THEN a ELSE Gcd(b, a % b)

\* num/den in lowest terms
Frac(num, den) ==
    LET g == Gcd(num, den) IN IF g = 0 THEN <<0, 1>> ELSE <<num \div g, den \div g>>

-----------------------------------------------------------------------------
(* The end_user_payments table *)

\* EndUserPayment: id, name (nullable), direction, amount (cents), sender_id,
\* consumer_phone_number, paid_at (nullable), created_at, transaction_id
Row(id, phone, direction, amount, name, sender, paid, created) ==
    [id |-> id, consumer_phone_number |-> phone, direction |-> direction,
     amount |-> amount, name |-> name, sender_id |-> sender,
     paid_at |-> paid, created_at |-> created, transaction_id |-> id]

RECURSIVE SumAmount(_)
SumAmount(rows) ==
    IF rows = {} THEN 0
    ELSE LET r == CHOOSE x \in rows : TRUE
         IN  r.amount + SumAmount(rows \ {r})

\* the orderings of a finite set that ORDER BY accepts: any permutation in
\* which an earlier element never sorts strictly after a later one
Orderings(S, Before(_, _)) ==
    LET n == Cardinality(S)
    IN  { q \in [1..n -> S] :
            /\ \A i, j \in 1..n : i # j => q[i] # q[j]
            /\ \A i, j \in 1..n : i < j => ~Before(q[j], q[i]) }

\* LIMIT k
Limit(q, k) == IF Len(q) <= k THEN q ELSE SubSeq(q, 1, k)

-----------------------------------------------------------------------------
(* PaymentRepository *)

\* paid_at__gte / paid_at__lte: a NULL paid_at satisfies neither comparison
\* a bounded range letting the payments that are not settled through
DateFilter_UnsettledPass(r, start, end) ==
    /\ start # NoDate => (r.paid_at = NoDate \/ DtLE(start, r.paid_at))
    /\ end # NoDate => (r.paid_at = NoDate \/ DtLE(r.paid_at, end))

DateFilter(r, start, end) ==
    /\ start # NoDate => (r.paid_at # NoDate /\ DtLE(start, r.paid_at))
    /\ end # NoDate => (r.paid_at # NoDate /\ DtLE(r.paid_at, end))

DirectionFilter(r, direction) == direction # "all" => r.direction = direction

DbOk(value) == [ok |-> TRUE, exc |-> "", msg |-> <<>>, value |-> value]
DbRaise(exc, msg) == [ok |-> FALSE, exc |-> exc, msg |-> msg, value |-> NoneV]

\* PaymentDirection, the enum of the direction column
PaymentDirection == {"outgoing", "incoming", "neutral", "unknown"}

\* filter(direction=direction) on the CharEnumField: the ORM converts the
\* value to the enum, which raises ValueError for a text that is no member
DirectionCheck(direction) ==
    IF direction = "all" \/ direction \in PaymentDirection THEN DbOk(NoneV)
    ELSE DbRaise("ValueError",
                 <<"'", direction, "' is not a valid PaymentDirection">>)

\* if consumer_phone_number: query.filter(consumer_phone_number=...)
PhoneFilter(r, phone) == Truthy(phone) => r.consumer_phone_number = phone.s

\* SUM(amount): NULL over no rows
SqlSum(rows) == IF rows = {} THEN NoneV ELSE Money(SumAmount(rows))

\* the aggregate passed on as the database gave it
OrZero_Keep(v) == v

\* x or Decimal("0.00"): None and a zero Decimal are falsy
OrZero(v) == IF v = NoneV \/ (v.t = "Decimal" /\ v.num = 0) THEN Money(0) ELSE v

\* get_total_by_period: {total, count} as the repository returns it
get_total_by_period(T, start, end, direction, phone) ==
    LET rows == { r \in T : /\ DateFilter(r, start, end)
                            /\ DirectionFilter(r, direction)
                            /\ PhoneFilter(r, phone) }
    IN  IF ~DirectionCheck(direction).ok THEN { DirectionCheck(direction) }
        ELSE { DbOk(Dict([total |-> OrZero(SqlSum(rows)),
                          count |-> IntV(Cardinality(rows))])) }

\* lower-casing of one piece of text
Lower(piece) ==
    IF piece = "Safaricom" THEN "safaricom"
    ELSE IF piece = "Ltd" THEN "ltd"
    ELSE IF piece = "Airtime" THEN "airtime"
    ELSE IF piece = "KPLC" THEN "kplc"
    ELSE piece

LowerText(txt) == [i \in 1..Len(txt) |-> Lower(txt[i])]

\* name__icontains: the needle occurs in the name, letter case ignored
IContains(hay, needle) ==
    \E i \in 0..(Len(hay) - Len(needle)) :
        \A j \in 1..Len(needle) : Lower(hay[i + j]) = Lower(needle[j])

NullsFirstDesc(a, b) ==
    \/ a = NoDate /\ b # NoDate
    \/ a # NoDate /\ b # NoDate /\ DtLT(b, a)

\* ORDER BY paid_at DESC on PostgreSQL: NULLs first, then latest first
PaidAtDesc(a, b) == NullsFirstDesc(a.paid_at, b.paid_at)

\* get_payments_by_name_fuzzy: the possible row sequences
get_payments_by_name_fuzzy(T, name, limit, phone) ==
    LET rows == { r \in T : /\ ~r.name.isNone
                            /\ IContains(r.name.s, name)
                            /\ PhoneFilter(r, phone) }
    IN  { DbOk(Limit(q, limit)) : q \in Orderings(rows, PaidAtDesc) }

\* ORDER BY total, smallest first
TotalDesc_Ascending(a, b) == a.total < b.total

\* order_by("-total")
TotalDesc(a, b) == a.total > b.total

\* result["average"] = result["total"] / result["count"]: the Decimal quotient,
\* kept as the exact ratio (Decimal rounds it to 28 significant digits)
Average(total, count) ==
    IF count > 0 THEN Dec(Frac(total, 100 * count)[1], Frac(total, 100 * count)[2])
    ELSE Money(0)

\* get_top_recipients_aggregated: the possible lists of {name, total, count,
\* average}
get_top_recipients_aggregated(T, direction, start, end, limit, phone) ==
    LET rows == { r \in T : /\ DateFilter(r, start, end)
                            /\ DirectionFilter(r, direction)
                            /\ PhoneFilter(r, phone)
                            /\ ~r.name.isNone }
        names == { r.name.s : r \in rows }
        groups == { [name |-> nm,
                     total |-> SumAmount({ r \in rows : r.name.s = nm }),
                     count |-> Cardinality({ r \in rows : r.name.s = nm })] :
                    nm \in names }
        out(g) == Dict([name |-> Str(g.name), total |-> Money(g.total),
                        count |-> IntV(g.count),
                        average |-> Average(g.total, g.count)])
    IN  IF ~DirectionCheck(direction).ok THEN { DirectionCheck(direction) }
        ELSE { DbOk(List([i \in 1..Len(Limit(q, limit)) |-> out(q[i])])) :
                 q \in Orderings(groups, TotalDesc) }

\* get_spending_by_sender: the possible lists of {sender_id, total, count}
\* (as plain records; the tool adds the percentage)
get_spending_by_sender(T, start, end, phone) ==
    LET rows == { r \in T : /\ r.direction = "outgoing"
                            /\ DateFilter(r, start, end)
                            /\ PhoneFilter(r, phone) }
        senders == { r.sender_id : r \in rows }
        groups == { [sender_id |-> sd,
                     total |-> SumAmount({ r \in rows : r.sender_id = sd }),
                     count |-> Cardinality({ r \in rows : r.sender_id = sd })] :
                    sd \in senders }
    IN  { DbOk(q) : q \in Orderings(groups, TotalDesc) }

\* date ordinals and the ISO week (IYYY-IW)
DaysBeforeYear(y) ==
    365 * (y - 1) + ((y - 1) \div 4) - ((y - 1) \div 100) + ((y - 1) \div 400)

RECURSIVE DaysBeforeMonth(_, _)
DaysBeforeMonth(y, mo) ==
    IF mo <= 1 THEN 0 ELSE DaysInMonth(y, mo - 1) + DaysBeforeMonth(y, mo - 1)

Ordinal(y, mo, d) == DaysBeforeYear(y) + DaysBeforeMonth(y, mo) + d

IsoWeek1Monday(y) ==
    LET firstday == Ordinal(y, 1, 1)
        firstweekday == (firstday + 6) % 7
        week1monday == firstday - firstweekday
    IN  IF firstweekday > 3 THEN week1monday + 7 ELSE week1monday

\* <<ISO year, ISO week>> of a date
IsoYearWeek(dt) ==
    LET today == Ordinal(dt.y, dt.mo, dt.d)
        week == (today - IsoWeek1Monday(dt.y)) \div 7
    IN  IF today < IsoWeek1Monday(dt.y)
        THEN <<dt.y - 1, ((today - IsoWeek1Monday(dt.y - 1)) \div 7) + 1>>
        ELSE IF week >= 52 /\ today >= IsoWeek1Monday(dt.y + 1)
             THEN <<dt.y + 1, 1>>
             ELSE <<dt.y, week + 1>>

\* date_format_map.get(granularity, "YYYY-MM")
\* an unknown granularity falling back to the day format
DateFormat_UnknownIsDay(granularity) ==
    IF granularity = "week" THEN "IYYY-IW"
    ELSE IF granularity = "month" THEN "YYYY-MM"
    ELSE "YYYY-MM-DD"

DateFormat(granularity) ==
    IF granularity = "day" THEN "YYYY-MM-DD"
    ELSE IF granularity = "week" THEN "IYYY-IW"
    ELSE "YYYY-MM"

\* TO_CHAR(paid_at, fmt): the label's zero-padded numbers; NULL for NULL
PeriodLabel(null, a, b, c) == [null |-> null, a |-> a, b |-> b, c |-> c]

ToChar(dt, fmt) ==
    IF dt = NoDate THEN PeriodLabel(TRUE, 0, 0, 0)
    ELSE IF fmt = "YYYY-MM-DD" THEN PeriodLabel(FALSE, dt.y, dt.mo, dt.d)
    ELSE IF fmt = "IYYY-IW"
         THEN PeriodLabel(FALSE, IsoYearWeek(dt)[1], IsoYearWeek(dt)[2], 0)
    ELSE PeriodLabel(FALSE, dt.y, dt.mo, 0)

\* ORDER BY period DESC on PostgreSQL: NULL first, then the text descending
LabelDesc(g, h) ==
    LET x == g.period
        y == h.period
    IN  \/ x.null /\ ~y.null
        \/ /\ ~x.null /\ ~y.null
           /\ \/ x.a > y.a
              \/ x.a = y.a /\ x.b > y.b
              \/ x.a = y.a /\ x.b = y.b /\ x.c > y.c

\* The WHERE clause of get_trend_data as the database reads it.  The text is
\*   direction = 'outgoing' AND consumer_phone_number = '<value>'
\* with the value pasted between the quotes: the string literal ends at the
\* first quote inside the value, and what follows is read as SQL.  Understood
\* continuations:  OR '<a>'='<b>' ; anything else is a syntax error.
FirstQuote(txt) ==
    IF \E i \in 1..Len(txt) : txt[i] = "'"
    THEN CHOOSE i \in 1..Len(txt) :
            txt[i] = "'" /\ \A j \in 1..(i - 1) : txt[j] # "'"
    ELSE 0

WhereClause(syntaxError, hasPhone, literal, orTrue) ==
    [syntaxError |-> syntaxError, hasPhone |-> hasPhone, literal |-> literal,
     orTrue |-> orTrue]

TrendWhere(phone) ==
    IF ~Truthy(phone) THEN WhereClause(FALSE, FALSE, <<>>, FALSE)
    ELSE LET q == FirstQuote(phone.s)
         IN  IF q = 0 THEN WhereClause(FALSE, TRUE, phone.s, FALSE)
             ELSE LET rest == SubSeq(phone.s, q + 1, Len(phone.s)) \o <<"'">>
                      lit == SubSeq(phone.s, 1, q - 1)
                  IN  IF /\ Len(rest) = 8
                         /\ rest[1] = " OR " /\ rest[2] = "'" /\ rest[4] = "'"
                         /\ rest[5] = "=" /\ rest[6] = "'" /\ rest[8] = "'"
                         /\ rest[3] # "'" /\ rest[7] # "'"
                      THEN WhereClause(FALSE, TRUE, lit, rest[3] = rest[7])
                      ELSE WhereClause(TRUE, TRUE, lit, FALSE)

\* (direction = 'outgoing' AND consumer_phone_number = literal) OR orTrue
WhereHolds(w, r) ==
    \/ /\ r.direction = "outgoing"
       /\ w.hasPhone => r.consumer_phone_number = w.literal
    \/ w.orTrue

\* get_trend_data: the possible lists of {period, total, count, average}
get_trend_data(T, granularity, limit, phone) ==
    LET fmt == DateFormat(granularity)
        w == TrendWhere(phone)
        rows == { r \in T : WhereHolds(w, r) }
        labels == { ToChar(r.paid_at, fmt) : r \in rows }
        in(lb) == { r \in rows : ToChar(r.paid_at, fmt) = lb }
        groups == { [period |-> lb, total |-> SumAmount(in(lb)),
                     count |-> Cardinality(in(lb))] : lb \in labels }
        out(g) == Dict([period |-> IF g.period.null THEN NoneV
                                   ELSE [t |-> "str", label |-> g.period],
                        total |-> Money(g.total), count |-> IntV(g.count),
                        average |-> Average(g.total, g.count)])
    IN  IF w.syntaxError
        THEN { DbRaise("OperationalError", <<"syntax error in SQL">>) }
        ELSE { DbOk(List([i \in 1..Len(Limit(q, limit)) |-> out(q[i])])) :
                 q \in Orderings(groups, LabelDesc) }

\* a second command after the text of a statement
DeleteAll == "; DELETE FROM end_user_payments; --"

\* the text of the statement of query q holds a second command: the subject
\* value pasted into get_trend_data's SQL closes the literal and goes on
StackedCommand(q) ==
    /\ q.op = "get_trend_data"
    /\ Truthy(q.phone)
    /\ FirstQuote(q.phone.s) \in 1..(Len(q.phone.s) - 1)
    /\ q.phone.s[FirstQuote(q.phone.s) + 1] = DeleteAll

\* the table after a statement sent with the simple query protocol, which
\* runs every command of the text
DbEffect_SimpleProtocol(T, q) == IF StackedCommand(q) THEN {{}} ELSE {T}

\* The tables the database may hold after the statement of query q on table
\* T.  Every statement of the repository is one SELECT: the ORM's filter /
\* annotate / values / order_by / limit / all, and the raw text of
\* get_trend_data, which execute_query_dict sends as one prepared statement
\* (a text holding a second command is rejected whole).
DbEffect(T, q) == {T}

-----------------------------------------------------------------------------
(* FinancialTools *)

ToolNames == {"get_spending_summary", "get_payments_by_recipient",
              "get_top_recipients", "get_spending_by_category",
              "get_payment_trends"}

\* limits of the tools' limit parameter and the parameters' defaults
MaxRecipientLimit == 100
MaxTopLimit == 20
MaxTrendLimit == 365
DefaultRecipientLimit == 10
DefaultTopLimit == 5
DefaultTrendLimit == 12

\* keyword parameters each tool declares, and those without a default
Allowed(tool) ==
    IF tool = "get_spending_summary"
    THEN {"period", "direction", "consumer_phone_number"}
    ELSE IF tool = "get_payments_by_recipient"
    THEN {"name", "limit", "consumer_phone_number"}
    ELSE IF tool = "get_top_recipients"
    THEN {"direction", "limit", "period", "consumer_phone_number"}
    ELSE IF tool = "get_spending_by_category"
    THEN {"period", "consumer_phone_number"}
    ELSE {"granularity", "limit", "consumer_phone_number"}

Required(tool) == IF tool = "get_payments_by_recipient" THEN {"name"} ELSE {}

Get(kw, k, default) == IF k \in DOMAIN kw THEN kw[k] ELSE default

PhoneArg(kw) ==
    IF "consumer_phone_number" \in DOMAIN kw
    THEN Some(kw["consumer_phone_number"]) ELSE None

\* a database query issued by a tool
Query(op, start, end, direction, phone, limit, name, granularity) ==
    [op |-> op, start |-> start, end |-> end, direction |-> direction,
     phone |-> phone, limit |-> limit, name |-> name,
     granularity |-> granularity]

NoQuery == Query("", NoDate, NoDate, "", None, 0, <<>>, "")

PreOk(q) == [ok |-> TRUE, exc |-> "", msg |-> <<>>, query |-> q]
PreRaise(exc, msg) == [ok |-> FALSE, exc |-> exc, msg |-> msg, query |-> NoQuery]

\* tool(**params): Python's check of the keyword arguments
BindCheck(tool, kw) ==
    IF DOMAIN kw \ Allowed(tool) # {}
    THEN PreRaise("TypeError",
                  <<tool, "() got an unexpected keyword argument ",
                    CHOOSE k \in DOMAIN kw \ Allowed(tool) : TRUE>>)
    ELSE IF Required(tool) \ DOMAIN kw # {}
    THEN PreRaise("TypeError",
                  <<tool, "() missing 1 required positional argument: ",
                    CHOOSE k \in Required(tool) \ DOMAIN kw : TRUE>>)
    ELSE PreOk(NoQuery)

LimitMsg(max) ==
    IF max = 100 THEN <<"Limit must be between 1 and 100">>
    ELSE IF max = 20 THEN <<"Limit must be between 1 and 20">>
    ELSE <<"Limit must be between 1 and 365">>

\* the period resolved and the query built, or the ValueError of the period
WithPeriod(n, period, op, direction, phone, limit) ==
    LET rng == get_date_range(n, period)
    IN  IF ~rng.ok THEN PreRaise(rng.exc, rng.msg)
        ELSE PreOk(Query(op, rng.start, rng.end, direction, phone, limit, <<>>, ""))

TopRecipientsPre(n, kw) ==
    LET limit == Get(kw, "limit", DefaultTopLimit)
    IN  IF limit < 1 \/ limit > MaxTopLimit
        THEN PreRaise("ValueError", LimitMsg(MaxTopLimit))
        ELSE WithPeriod(n, Get(kw, "period", "all_time"),
                        "get_top_recipients_aggregated",
                        Get(kw, "direction", "outgoing"), PhoneArg(kw), limit)

SpendingSummaryPre(n, kw) ==
    WithPeriod(n, Get(kw, "period", "this_month"), "get_total_by_period",
               Get(kw, "direction", "outgoing"), PhoneArg(kw), 0)

\* get_payments_by_recipient refusing the maximum itself
RecipientPre_MaxExcluded(n, kw) ==
    LET limit == Get(kw, "limit", DefaultRecipientLimit)
    IN  IF limit < 1 \/ limit >= MaxRecipientLimit
        THEN PreRaise("ValueError", LimitMsg(MaxRecipientLimit))
        ELSE PreOk(Query("get_payments_by_name_fuzzy", NoDate, NoDate, "",
                         PhoneArg(kw), limit, kw["name"], ""))

RecipientPre(n, kw) ==
    LET limit == Get(kw, "limit", DefaultRecipientLimit)
    IN  IF limit < 1 \/ limit > MaxRecipientLimit
        THEN PreRaise("ValueError", LimitMsg(MaxRecipientLimit))
        ELSE PreOk(Query("get_payments_by_name_fuzzy", NoDate, NoDate, "",
                         PhoneArg(kw), limit, kw["name"], ""))

CategoryPre(n, kw) ==
    WithPeriod(n, Get(kw, "period", "this_month"), "get_spending_by_sender",
               "outgoing", PhoneArg(kw), 0)

TrendsPre(n, kw) ==
    LET limit == Get(kw, "limit", DefaultTrendLimit)
    IN  IF limit < 1 \/ limit > MaxTrendLimit
        THEN PreRaise("ValueError", LimitMsg(MaxTrendLimit))
        ELSE PreOk(Query("get_trend_data", NoDate, NoDate, "outgoing",
                         PhoneArg(kw), limit, <<>>,
                         Get(kw, "granularity", "month")))

\* A tool from its call to its awaited database query, the clock reading n:
\* the query it issues, or the exception it raises before issuing any
ToolPre(n, tool, kw) ==
    IF ~BindCheck(tool, kw).ok THEN BindCheck(tool, kw)
    ELSE IF tool = "get_spending_summary" THEN SpendingSummaryPre(n, kw)
    ELSE IF tool = "get_payments_by_recipient" THEN RecipientPre(n, kw)
    ELSE IF tool = "get_top_recipients" THEN TopRecipientsPre(n, kw)
    ELSE IF tool = "get_spending_by_category" THEN CategoryPre(n, kw)
    ELSE TrendsPre(n, kw)

\* what the database may answer to a query over table T
DbRun(T, q) ==
    IF q.op = "get_total_by_period"
    THEN get_total_by_period(T, q.start, q.end, q.direction, q.phone)
    ELSE IF q.op = "get_payments_by_name_fuzzy"
    THEN get_payments_by_name_fuzzy(T, q.name, q.limit, q.phone)
    ELSE IF q.op = "get_top_recipients_aggregated"
    THEN get_top_recipients_aggregated(T, q.direction, q.start, q.end, q.limit,
                                       q.phone)
    ELSE IF q.op = "get_spending_by_sender"
    THEN get_spending_by_sender(T, q.start, q.end, q.phone)
    ELSE get_trend_data(T, q.granularity, q.limit, q.phone)

SpendingSummaryPost(n, kw, q, res) ==
    Dict([total |-> OrZero(res.f.total),
          count |-> res.f.count,
          period |-> [t |-> "str",
                      label |-> format_period_name(n, Get(kw, "period", "this_month"))],
          start_date |-> Dtv(q.start),
          end_date |-> Dtv(q.end),
          direction |-> Str(q.direction)])

RecipientPost(rows) ==
    List([i \in 1..Len(rows) |->
            Dict([name |-> Str(rows[i].name.s),
                  amount |-> Money(rows[i].amount),
                  date |-> IF rows[i].paid_at # NoDate THEN Dtv(rows[i].paid_at)
                           ELSE Dtv(rows[i].created_at),
                  direction |-> Str(rows[i].direction),
                  transaction_id |-> Str(rows[i].transaction_id)])])

RECURSIVE SumTotals(_, _)
SumTotals(cats, i) ==
    IF i > Len(cats) THEN 0 ELSE cats[i].total + SumTotals(cats, i + 1)

\* the share left as a fraction of one, not multiplied by 100
CategoryPost_Share(cats) ==
    LET total_spending == SumTotals(cats, 1)
        pct(c) == IF total_spending > 0
                  THEN Flt(Frac(c.total, total_spending)[1],
                           Frac(c.total, total_spending)[2])
                  ELSE Flt(0, 1)
    IN  List([i \in 1..Len(cats) |->
                Dict([sender_id |-> Str(cats[i].sender_id),
                      total |-> Money(cats[i].total),
                      count |-> IntV(cats[i].count),
                      percentage |-> pct(cats[i])])])

\* the percentage float((total / total_spending) * 100) is kept as the exact
\* ratio; Decimal's 28 digits and the float's 53 bits round it
CategoryPost(cats) ==
    LET total_spending == SumTotals(cats, 1)
        pct(c) == IF total_spending > 0
                  THEN Flt(Frac(c.total * 100, total_spending)[1],
                           Frac(c.total * 100, total_spending)[2])
                  ELSE Flt(0, 1)
    IN  List([i \in 1..Len(cats) |->
                Dict([sender_id |-> Str(cats[i].sender_id),
                      total |-> Money(cats[i].total),
                      count |-> IntV(cats[i].count),
                      percentage |-> pct(cats[i])])])

\* A tool from the database's answer to its return value, the clock reading n
ToolPost(n, tool, kw, q, res) ==
    IF tool = "get_spending_summary" THEN SpendingSummaryPost(n, kw, q, res)
    ELSE IF tool = "get_payments_by_recipient" THEN RecipientPost(res)
    ELSE IF tool = "get_spending_by_category" THEN CategoryPost(res)
    ELSE res

-----------------------------------------------------------------------------
(* FinancialAgentService: values *)

\* an optional str (the "tool", "answer" and "confidence" of a plan)
NoStr == [isNone |-> TRUE, s |-> ""]
SomeStr(s) == [isNone |-> FALSE, s |-> s]

EmptyKw == [x \in {} |-> 0]

\* a "params" value: kind "dict" with its keyword record, kind "absent" (no such
\* key) or kind "notdict" (null, a list, a number)
Params(kind, kw) == [kind |-> kind, kw |-> kw]

\* one element of "tool_calls": a mapping with its "tool" and "params", or some
\* other JSON value
Entry(isMap, tool, params) == [isMap |-> isMap, tool |-> tool, params |-> params]

\* a field of the plan object: kind "absent", "str" (with its text) or "other"
Field(kind, s) == [kind |-> kind, s |-> s]

\* a parsed JSON document: an object with its "tool_calls" (kind "absent", "seq"
\* with the entries, or "notseq"), "answer" and "confidence", or not an object
Doc(isObject, tcKind, items, answer, confidence) ==
    [isObject |-> isObject, tcKind |-> tcKind, items |-> items,
     answer |-> answer, confidence |-> confidence]

NoDoc == Doc(FALSE, "absent", <<>>, Field("absent", ""), Field("absent", ""))

\* what ask returned (a FinancialAnswerSchema) or raised
Returned(answer, calls, confidence) ==
    [kind |-> "returned", answer |-> answer, tool_calls |-> calls,
     confidence |-> confidence, exc |-> ""]
Raised(exc, msg) ==
    [kind |-> "raised", answer |-> msg, tool_calls |-> <<>>, confidence |-> "",
     exc |-> exc]
NoResponse ==
    [kind |-> "none", answer |-> <<>>, tool_calls |-> <<>>, confidence |-> "",
     exc |-> ""]

\* the content of the LLM's message: None, or text that is a JSON document or
\* is not
Content(isNone, isJson, doc) == [isNone |-> isNone, isJson |-> isJson, doc |-> doc]

\* what the chat-completion call may do: raise a provider error, or return a
\* message with its content
LlmRaise(exc, msg) == [raised |-> TRUE, exc |-> exc, msg |-> msg,
                       content |-> Content(TRUE, FALSE, NoDoc)]
LlmContent(c) == [raised |-> FALSE, exc |-> "", msg |-> <<>>, content |-> c]
NoLlm == LlmRaise("<not called>", <<>>)

\* what the provider call of AIService.chat may do: raise an exception of a
\* class (with the HTTP status it carries, 0 when it carries none, and its
\* message), or return a completion with a number of choices and the content
\* of the first one
ProvRaise(cls, status, message) ==
    [raised |-> TRUE, cls |-> cls, status |-> status, message |-> message,
     choices |-> 0, content |-> None]
ProvReturn(choices, content) ==
    [raised |-> FALSE, cls |-> "", status |-> 0, message |-> <<>>,
     choices |-> choices, content |-> content]
NoProv == ProvRaise("<not called>", 0, <<>>)

\* what chat returned ({"message": ...}) or raised (an exception with its
\* class, message, status_code and error_code)
ChatReturn(content) ==
    [kind |-> "returned", cls |-> "", message |-> content, status_code |-> 0,
     error_code |-> ""]
ChatRaise(cls, message, status_code, error_code) ==
    [kind |-> "raised", cls |-> cls, message |-> Some(message),
     status_code |-> status_code, error_code |-> error_code]
NoChat == [kind |-> "none", cls |-> "", message |-> None, status_code |-> 0,
           error_code |-> ""]

\* an HTTP response: status, and the error code and message of its body
Http(status, code, message) == [status |-> status, code |-> code, message |-> message]
NoHttp == Http(0, "", None)

ChatIdle ==
    /\ chatPc = "idle"
    /\ chatMsg = <<>>
    /\ chatProv = NoProv
    /\ chatRes = NoChat
    /\ httpResp = NoHttp

\* what format_response_naturally returned (a str) or raised
FmtReturn(text) == [kind |-> "returned", text |-> text, exc |-> ""]
FmtRaise(exc) == [kind |-> "raised", text |-> <<>>, exc |-> exc]
NoFmt == [kind |-> "none", text |-> <<>>, exc |-> ""]

\* a FinancialAnswerSchema; serializable: json.dumps accepts every params
StructuredAnswer(answer, calls, confidence, serializable) ==
    [answer |-> answer, tool_calls |-> calls, confidence |-> confidence,
     serializable |-> serializable]
NoAnswer == StructuredAnswer(<<>>, <<>>, "", TRUE)

FmtIdle ==
    /\ fmtPc = "idle"
    /\ fmtIn = NoAnswer
    /\ fmtArg = NoAnswer
    /\ fmtLlm = NoProv
    /\ fmtOut = NoFmt

SerIdle == serPc = "idle" /\ serIn = NoneV /\ serOut = NoneV

AskIdle ==
    /\ pc = "idle"
    /\ llmOut = NoLlm
    /\ reqPhone = None
    /\ parsed = NoDoc
    /\ idx = 0
    /\ tool_calls = <<>>
    /\ response = NoResponse
    /\ events = <<>>
    /\ llmCalls = 0

-----------------------------------------------------------------------------
(* Direct tool calls against a payments table: specification SpecTools *)

Dt(y, mo, d, h, mi, s, us) ==
    [y |-> y, mo |-> mo, d |-> d, h |-> h, mi |-> mi, s |-> s, us |-> us]

P1 == <<"254700000001">>
P2 == <<"254700000002">>
\* a subject value that closes the quoted literal and continues the SQL text
Injection == <<"x", "'", " OR ", "'", "1", "'", "=", "'", "1">>
\* a subject value with a lone quote in it
LoneQuote == <<"254", "'", "7">>
\* a subject value that closes the literal and adds a command
Stacked == <<"x", "'", DeleteAll>>

AllRows ==
    { Row(1, P1, "outgoing", 100000, Some(<<"Safaricom", " ", "Ltd">>), "MPESA",
          Dt(2024, 1, 15, 9, 0, 0, 0), Dt(2024, 1, 15, 9, 0, 1, 0)),
      Row(2, P1, "outgoing", 200000, Some(<<"Airtime", " ", "Safaricom">>), "MPESA",
          Dt(2024, 1, 20, 18, 30, 0, 0), Dt(2024, 1, 20, 18, 30, 1, 0)),
      Row(3, P2, "outgoing", 50000, Some(<<"Safaricom", " ", "Ltd">>), "AIRTELMONEY",
          Dt(2024, 1, 10, 8, 0, 0, 0), Dt(2024, 1, 10, 8, 0, 1, 0)),
      Row(4, P1, "incoming", 70000, None, "MPESA",
          NoDate, Dt(2024, 1, 21, 7, 0, 0, 0)),
      Row(5, P2, "incoming", 30000, Some(<<"KPLC">>), "MPESA",
          Dt(2023, 12, 31, 23, 59, 59, 999999), Dt(2024, 1, 1, 0, 0, 0, 0)),
      Row(6, P1, "outgoing", 100000, Some(<<"KPLC">>), "AIRTELMONEY",
          Dt(2023, 12, 5, 10, 0, 0, 0), Dt(2023, 12, 5, 10, 0, 1, 0)),
      Row(7, P2, "outgoing", 0, Some(<<"KPLC">>), "MPESA",
          Dt(2024, 1, 12, 12, 0, 0, 0), Dt(2024, 1, 12, 12, 0, 1, 0)),
      Row(8, P1, "outgoing", 40000, Some(<<"Safaricom", " ", "Ltd">>), "MPESA",
          NoDate, Dt(2024, 1, 22, 6, 0, 0, 0)),
      Row(9, P1, "neutral", 25000, Some(<<"KPLC">>), "MPESA",
          Dt(2024, 1, 18, 14, 0, 0, 0), Dt(2024, 1, 18, 14, 0, 1, 0)) }

Tables == { T \in SUBSET AllRows : Cardinality(T) <= MaxRows }

\* the clock's readings during a call, in order
ClockSeq ==
    << Dt(2024, 1, 31, 23, 59, 59, 999999), Dt(2024, 2, 1, 0, 0, 0, 0) >>

\* keyword arguments: a record of the arguments given
AbsentText == <<"<absent>">>

KwOf(f) ==
    [k \in { x \in DOMAIN f : f[x] # IF x \in {"name", "consumer_phone_number"}
                                      THEN AbsentText
                                      ELSE IF x = "limit" THEN -1
                                      ELSE "<absent>" } |-> f[k]]

PhoneInputs == {AbsentText, P1, P2, <<>>, Injection, LoneQuote, Stacked}
PeriodArgs == {"<absent>", "this_month", "last_month", "all_time", "yesterday"}
DirectionArgs == {"<absent>", "incoming", "all", "neutral", "sideways"}

ToolInputs ==
    { [tool |-> "get_spending_summary",
       kw |-> KwOf([period |-> p, direction |-> d, consumer_phone_number |-> ph])] :
        <<p, d, ph>> \in PeriodArgs \X DirectionArgs \X PhoneInputs }
    \cup
    { [tool |-> "get_payments_by_recipient",
       kw |-> KwOf([name |-> nm, limit |-> l, consumer_phone_number |-> ph])] :
        <<nm, l, ph>> \in {<<"safaricom">>, <<"kplc">>, <<"Nobody">>}
                           \X {-1, 0, 1, 100, 101} \X PhoneInputs }
    \cup
    { [tool |-> "get_top_recipients",
       kw |-> KwOf([direction |-> d, limit |-> l, period |-> p,
                    consumer_phone_number |-> ph])] :
        <<d, l, p, ph>> \in {"<absent>", "all"} \X {-1, 0, 1, 20, 21}
                             \X {"<absent>", "this_month", "yesterday"}
                             \X PhoneInputs }
    \cup
    { [tool |-> "get_spending_by_category",
       kw |-> KwOf([period |-> p, consumer_phone_number |-> ph])] :
        <<p, ph>> \in PeriodArgs \X PhoneInputs }
    \cup
    { [tool |-> "get_payment_trends",
       kw |-> KwOf([granularity |-> g, limit |-> l, consumer_phone_number |-> ph])] :
        <<g, l, ph>> \in {"<absent>", "day", "week", "fortnight"}
                          \X {-1, 0, 1, 365, 366} \X PhoneInputs }

NoCall == [tool |-> "", kw |-> [x \in {} |-> 0]]

ToolOk(v) == [ok |-> TRUE, exc |-> "", msg |-> <<>>, value |-> v]
ToolRaise(exc, msg) == [ok |-> FALSE, exc |-> exc, msg |-> msg, value |-> NoneV]
NoOutcome == ToolRaise("<pending>", <<>>)

ToolsIdle ==
    /\ table = {}
    /\ tcall = NoCall
    /\ tphase = "idle"
    /\ tquery = NoQuery
    /\ tout = NoOutcome
    /\ dbLog = <<>>

InitTools ==
    /\ now = ClockSeq[1]
    /\ table \in Tables
    /\ tcall = NoCall
    /\ tphase = "idle"
    /\ tquery = NoQuery
    /\ tout = NoOutcome
    /\ dbLog = <<>>
    /\ DateIdle
    /\ AskIdle
    /\ ChatIdle
    /\ FmtIdle
    /\ SerIdle

\* a tool is called: it raises, or issues its query and awaits the answer
CallTool(c) ==
    /\ tphase = "idle"
    /\ tcall' = c
    /\ LET pre == ToolPre(now, c.tool, c.kw)
       IN  IF pre.ok
           THEN /\ tphase' = "query"
                /\ tquery' = pre.query
                /\ dbLog' = Append(dbLog, pre.query)
                /\ tout' = tout
           ELSE /\ tphase' = "done"
                /\ tquery' = tquery
                /\ dbLog' = dbLog
                /\ tout' = ToolRaise(pre.exc, pre.msg)
    /\ UNCHANGED otherVars
    /\ UNCHANGED <<now, dateCalls, table, askVars>>

\* the database answers the awaited query (or rejects it) and the tool returns
DbAnswer ==
    /\ tphase = "query"
    /\ \E res \in DbRun(table, tquery) :
          tout' = IF res.ok
                  THEN ToolOk(ToolPost(now, tcall.tool, tcall.kw, tquery, res.value))
                  ELSE ToolRaise(res.exc, res.msg)
    /\ table' \in DbEffect(table, tquery)
    /\ tphase' = "done"
    /\ UNCHANGED otherVars
    /\ UNCHANGED <<now, dateCalls, tcall, tquery, dbLog, askVars>>

\* the database connection fails while the query is awaited
DbFail ==
    /\ tphase = "query"
    /\ tout' = ToolRaise("OperationalError", <<"connection lost">>)
    /\ tphase' = "done"
    /\ UNCHANGED otherVars
    /\ UNCHANGED <<now, dateCalls, table, tcall, tquery, dbLog, askVars>>

\* the wall clock advances while a call is in progress
Tick ==
    /\ tphase \in {"idle", "query"}
    /\ \E i \in 1..(Len(ClockSeq) - 1) : now = ClockSeq[i] /\ now' = ClockSeq[i + 1]
    /\ UNCHANGED otherVars
    /\ UNCHANGED <<dateCalls, toolVars, askVars>>

NextTools ==
    \/ \E c \in ToolInputs : CallTool(c)
    \/ DbAnswer
    \/ DbFail
    \/ Tick

SpecTools == InitTools /\ [][NextTools]_vars

-----------------------------------------------------------------------------
(* FinancialAgentService.ask: specification Spec *)

\* the conversion applied to the value itself only, containers left alone
_serialize_result_TopLevel(v) ==
    IF v.t = "Decimal" THEN Flt(v.num, v.den)
    ELSE IF v.t = "datetime" THEN IsoText(v.dt)
    ELSE v

\* _serialize_result
RECURSIVE _serialize_result(_)
_serialize_result(v) ==
    IF v.t = "dict" THEN Dict([k \in DOMAIN v.f |-> _serialize_result(v.f[k])])
    ELSE IF v.t = "list"
         THEN List([i \in 1..Len(v.q) |-> _serialize_result(v.q[i])])
    ELSE IF v.t = "Decimal" THEN Flt(v.num, v.den)
    ELSE IF v.t = "datetime" THEN IsoText(v.dt)
    ELSE v

ParseOk(doc) == [ok |-> TRUE, exc |-> "", msg |-> <<>>, value |-> doc]
ParseRaise(exc, msg) == [ok |-> FALSE, exc |-> exc, msg |-> msg, value |-> NoDoc]

\* json.loads(ai_response)
json_loads(content) ==
    IF content.isNone
    THEN ParseRaise("TypeError",
                    <<"the JSON object must be str, bytes or bytearray, not NoneType">>)
    ELSE IF ~content.isJson
    THEN ParseRaise("JSONDecodeError", <<"Expecting value: line 1 column 1 (char 0)">>)
    ELSE ParseOk(content.doc)

Apology == <<"I'm sorry, I couldn't process your question. Could you rephrase it?">>

\* the parse failure handled like any other exception
ParseExcept_Generic ==
    Returned(<<"I encountered an error: ",
               "Expecting value: line 1 column 1 (char 0)">>, <<>>, "low")

\* except json.JSONDecodeError: the fixed fallback
ParseExcept == Returned(Apology, <<>>, "low")

FallbackAnswer(msg) == <<"I encountered an error: ">> \o msg

\* the outer handler letting the exception through
OuterExcept_Reraise(exc, msg) == Raised(exc, msg)

\* the outer handler returning the records made so far
OuterExcept_KeepCalls(exc, msg) == Returned(FallbackAnswer(msg), tool_calls, "low")

\* except Exception as e: the terminal fallback
OuterExcept(exc, msg) == Returned(FallbackAnswer(msg), <<>>, "low")

ModelOk(v) == [ok |-> TRUE, exc |-> "", msg |-> <<>>, value |-> v]
ModelRaise(exc, msg) ==
    [ok |-> FALSE, exc |-> exc, msg |-> msg,
     value |-> [tool |-> "", params |-> EmptyKw, result |-> NoneV]]

\* ToolCall(tool=..., params=..., result=...): tool must be a str and params a
\* dict, else pydantic raises ValidationError
ToolCallModel(tool_name, params, result) ==
    IF tool_name.isNone \/ params.kind # "dict"
    THEN ModelRaise("ValidationError", <<"validation error for ToolCall">>)
    ELSE ModelOk([tool |-> tool_name.s, params |-> params.kw, result |-> result])

\* the plan's own consumer_phone_number kept when it gives one
InjectPhone_PlanWins(kw, phone) ==
    IF "consumer_phone_number" \in DOMAIN kw THEN kw
    ELSE [k \in DOMAIN kw \cup {"consumer_phone_number"} |->
            IF k = "consumer_phone_number" THEN phone ELSE kw[k]]

\* params["consumer_phone_number"] = consumer_phone_number
InjectPhone(kw, phone) ==
    [k \in DOMAIN kw \cup {"consumer_phone_number"} |->
        IF k = "consumer_phone_number" THEN phone ELSE kw[k]]

\* tool_call_spec.get("params", {}), then the caller's filter when it is truthy:
\* the params to dispatch, or the TypeError of assigning into a non-dict
\* the caller's filter tested against None, not for truth: "" is written too
EntryParams_NotNone(e, phone) ==
    LET params == IF e.params.kind = "absent" THEN Params("dict", EmptyKw)
                  ELSE e.params
    IN  IF phone.isNone THEN [ok |-> TRUE, params |-> params]
        ELSE IF params.kind # "dict" THEN [ok |-> FALSE, params |-> params]
        ELSE [ok |-> TRUE,
              params |-> Params("dict", InjectPhone(params.kw, phone.s))]

EntryParams(e, phone) ==
    LET params == IF e.params.kind = "absent" THEN Params("dict", EmptyKw)
                  ELSE e.params
    IN  IF ~Truthy(phone) THEN [ok |-> TRUE, params |-> params]
        ELSE IF params.kind # "dict" THEN [ok |-> FALSE, params |-> params]
        ELSE [ok |-> TRUE,
              params |-> Params("dict", InjectPhone(params.kw, phone.s))]

UnknownToolMsg(tool_name) ==
    <<"Unknown tool: ", IF tool_name.isNone THEN "None" ELSE tool_name.s>>

\* _execute_tool up to the tool's awaited query: the query issued, or the
\* exception raised before any
ExecuteToolPre(n, tool_name, params) ==
    IF tool_name.isNone \/ tool_name.s \notin ToolNames
    THEN PreRaise("ValueError", UnknownToolMsg(tool_name))
    ELSE IF params.kind # "dict"
    THEN PreRaise("TypeError", <<"argument after ** must be a mapping">>)
    ELSE ToolPre(n, tool_name.s, params.kw)

ErrorResult(msg) == Dict([error |-> Str(msg)])

\* FinancialAnswerSchema(answer=..., tool_calls=..., confidence=...) from the
\* plan: answer and confidence must be str, else ValidationError
AnswerModel(doc, calls) ==
    IF doc.answer.kind = "other" \/ doc.confidence.kind = "other"
    THEN [ok |-> FALSE, value |-> NoResponse]
    ELSE [ok |-> TRUE,
          value |-> Returned(IF doc.answer.kind = "absent"
                             THEN <<"I couldn't generate an answer.">>
                             ELSE <<doc.answer.s>>,
                             calls,
                             IF doc.confidence.kind = "absent" THEN "medium"
                             ELSE doc.confidence.s)]

\* an _execute_tool call of plan entry i begun ("start"), or ended ("end")
\* with ok = FALSE when it raised
Ev(kind, i, tool_name, params, ok) ==
    [kind |-> kind, i |-> i, tool |-> tool_name, params |-> params, ok |-> ok]

\* entries the LLM may put in a plan
PlanEntries ==
    { Entry(TRUE, SomeStr("get_spending_summary"),
            Params("dict", [period |-> "this_month"])),
      Entry(TRUE, SomeStr("get_spending_by_category"),
            Params("dict", [period |-> "yesterday"])),
      Entry(TRUE, SomeStr("get_balance"), Params("dict", EmptyKw)),
      Entry(TRUE, SomeStr("get_top_recipients"), Params("dict", [limit |-> 0])),
      Entry(TRUE, SomeStr("get_payment_trends"),
            Params("dict", [consumer_phone_number |-> P2])),
      Entry(TRUE, SomeStr("get_payments_by_recipient"), Params("absent", EmptyKw)),
      Entry(TRUE, NoStr, Params("dict", EmptyKw)),
      Entry(TRUE, SomeStr("get_spending_summary"), Params("notdict", EmptyKw)),
      Entry(FALSE, NoStr, Params("absent", EmptyKw)) }

Plans == UNION { [1..n -> PlanEntries] : n \in 0..MaxPlanLen }

\* the "answer" and "confidence" of a plan
PlanTexts ==
    { <<Field("str", "You spent 3000 KES."), Field("str", "high")>>,
      <<Field("absent", ""), Field("absent", "")>>,
      <<Field("other", ""), Field("str", "high")>>,
      <<Field("str", "You spent 3000 KES."), Field("other", "")>>,
      <<Field("str", "You spent 3000 KES."), Field("str", "certain")>> }

Docs ==
    { Doc(TRUE, "seq", plan, t[1], t[2]) : <<plan, t>> \in Plans \X PlanTexts }
    \cup { Doc(TRUE, "absent", <<>>, Field("str", "Hello."), Field("str", "low")),
           Doc(TRUE, "notseq", <<>>, Field("str", "Hello."), Field("str", "low")),
           Doc(FALSE, "absent", <<>>, Field("absent", ""), Field("absent", "")) }

\* the outcomes of the chat-completion call: a provider error, content None,
\* text that is not JSON, a JSON document
LlmOutcomes ==
    { LlmRaise("APITimeoutError", <<"Request timed out.">>),
      LlmRaise("APIStatusError", <<"Error code: 402 - Insufficient Balance">>),
      LlmContent(Content(TRUE, FALSE, NoDoc)),
      LlmContent(Content(FALSE, FALSE, NoDoc)) }
    \cup { LlmContent(Content(FALSE, TRUE, d)) : d \in Docs }

CallerPhones == {None, Some(<<>>), Some(P1)}

\* the table and the clock of the requests checked
AskTable == { r \in AllRows : r.id \in {1, 2, 3} }

Init ==
    /\ now = ClockSeq[1]
    /\ DateIdle
    /\ table = AskTable
    /\ tcall = NoCall
    /\ tphase = "idle"
    /\ tquery = NoQuery
    /\ tout = NoOutcome
    /\ dbLog = <<>>
    /\ AskIdle
    /\ ChatIdle
    /\ FmtIdle
    /\ SerIdle

\* ask is called: the plan request goes to the LLM
AskStart(phone) ==
    /\ pc = "idle"
    /\ pc' = "plan"
    /\ reqPhone' = phone
    /\ llmCalls' = llmCalls + 1
    /\ UNCHANGED <<parsed, idx, tool_calls, response, events, llmOut>>
    /\ UNCHANGED otherVars
    /\ UNCHANGED <<now, dateCalls, toolVars>>

\* ask is over with this response
Finish(resp) ==
    /\ response' = resp
    /\ pc' = "done"
    /\ UNCHANGED <<idx, tool_calls>>

\* the record put in front of the earlier ones
Continue_Prepend(rec) ==
    /\ tool_calls' = <<rec>> \o tool_calls
    /\ idx' = idx + 1
    /\ pc' = "loop"
    /\ response' = response

\* the record appended and the same plan entry taken again
Continue_SameEntry(rec) ==
    /\ tool_calls' = Append(tool_calls, rec)
    /\ idx' = idx
    /\ pc' = "loop"
    /\ response' = response

\* tool_calls.append(...), and on to the next plan entry
Continue(rec) ==
    /\ tool_calls' = Append(tool_calls, rec)
    /\ idx' = idx + 1
    /\ pc' = "loop"
    /\ response' = response

\* except Exception as e (inner): the failure is recorded as a ToolCall; a
\* ValidationError of that ToolCall reaches the outer handler
AfterFailure(tool_name, params, exc, msg) ==
    LET v == ToolCallModel(tool_name, params, ErrorResult(msg))
    IN  IF v.ok THEN Continue(v.value) ELSE Finish(OuterExcept(v.exc, v.msg))

\* the chat-completion call raises
LlmFail(o) ==
    /\ pc = "plan"
    /\ o.raised
    /\ llmOut' = o
    /\ Finish(OuterExcept(o.exc, o.msg))
    /\ UNCHANGED <<reqPhone, parsed, events, llmCalls>>
    /\ UNCHANGED otherVars
    /\ UNCHANGED <<now, dateCalls, toolVars>>

\* the chat-completion call returns: the content is parsed and the loop over
\* parsed_response.get("tool_calls", []) is entered
LlmReturn(o) ==
    /\ pc = "plan"
    /\ ~o.raised
    /\ llmOut' = o
    /\ LET p == json_loads(o.content)
       IN  IF ~p.ok
           THEN /\ Finish(IF p.exc = "JSONDecodeError" THEN ParseExcept
                          ELSE OuterExcept(p.exc, p.msg))
                /\ parsed' = parsed
           ELSE IF ~p.value.isObject
           THEN /\ Finish(OuterExcept("AttributeError",
                                      <<"'list' object has no attribute 'get'">>))
                /\ parsed' = p.value
           ELSE IF p.value.tcKind = "notseq"
           THEN /\ Finish(OuterExcept("TypeError",
                                      <<"'int' object is not iterable">>))
                /\ parsed' = p.value
           ELSE /\ parsed' = p.value
                /\ pc' = "loop"
                /\ idx' = 1
                /\ UNCHANGED <<tool_calls, response>>
    /\ UNCHANGED <<reqPhone, events, llmCalls>>
    /\ UNCHANGED otherVars
    /\ UNCHANGED <<now, dateCalls, toolVars>>

\* one iteration of the loop up to the tool's awaited query
Dispatch ==
    /\ pc = "loop"
    /\ idx <= Len(parsed.items)
    /\ LET e == parsed.items[idx]
           ep == EntryParams(e, reqPhone)
           pre == ExecuteToolPre(now, e.tool, ep.params)
       IN  IF ~e.isMap
           THEN /\ Finish(OuterExcept("AttributeError",
                                      <<"'str' object has no attribute 'get'">>))
                /\ UNCHANGED <<events, toolVars>>
           ELSE IF ~ep.ok
           THEN /\ Finish(OuterExcept("TypeError",
                     <<"'NoneType' object does not support item assignment">>))
                /\ UNCHANGED <<events, toolVars>>
           ELSE IF ~pre.ok
           THEN /\ AfterFailure(e.tool, ep.params, pre.exc, pre.msg)
                /\ events' = events \o <<Ev("start", idx, e.tool, ep.params, TRUE),
                                         Ev("end", idx, e.tool, ep.params, FALSE)>>
                /\ UNCHANGED toolVars
           ELSE /\ pc' = "tool"
                /\ events' = Append(events, Ev("start", idx, e.tool, ep.params, TRUE))
                /\ tcall' = [tool |-> e.tool.s, kw |-> ep.params.kw]
                /\ tphase' = "query"
                /\ tquery' = pre.query
                /\ dbLog' = Append(dbLog, pre.query)
                /\ UNCHANGED <<table, tout, idx, tool_calls, response>>
    /\ UNCHANGED <<reqPhone, parsed, llmOut, llmCalls>>
    /\ UNCHANGED otherVars
    /\ UNCHANGED <<now, dateCalls>>

EndEvent(ok) == Ev("end", idx, SomeStr(tcall.tool), Params("dict", tcall.kw), ok)

\* the awaited query is answered: the tool returns, or raises what the
\* database raised, and the call is recorded
ToolReturn ==
    /\ pc = "tool"
    /\ \E res \in DbRun(table, tquery) :
          IF res.ok
          THEN LET result == _serialize_result(
                                ToolPost(now, tcall.tool, tcall.kw, tquery, res.value))
                   v == ToolCallModel(SomeStr(tcall.tool), Params("dict", tcall.kw),
                                      result)
               IN  /\ IF v.ok THEN Continue(v.value)
                      ELSE Finish(OuterExcept(v.exc, v.msg))
                   /\ tout' = ToolOk(result)
                   /\ events' = Append(events, EndEvent(TRUE))
          ELSE /\ AfterFailure(SomeStr(tcall.tool), Params("dict", tcall.kw),
                               res.exc, res.msg)
               /\ tout' = ToolRaise(res.exc, res.msg)
               /\ events' = Append(events, EndEvent(FALSE))
    /\ table' \in DbEffect(table, tquery)
    /\ tphase' = "idle"
    /\ UNCHANGED <<reqPhone, parsed, llmOut, llmCalls>>
    /\ UNCHANGED otherVars
    /\ UNCHANGED <<now, dateCalls, tcall, tquery, dbLog>>

\* the database connection fails while the tool awaits its query
ToolDbFail ==
    /\ pc = "tool"
    /\ AfterFailure(SomeStr(tcall.tool), Params("dict", tcall.kw),
                    "OperationalError", <<"connection lost">>)
    /\ tout' = ToolRaise("OperationalError", <<"connection lost">>)
    /\ tphase' = "idle"
    /\ events' = Append(events, EndEvent(FALSE))
    /\ UNCHANGED <<reqPhone, parsed, llmOut, llmCalls>>
    /\ UNCHANGED otherVars
    /\ UNCHANGED <<now, dateCalls, table, tcall, tquery, dbLog>>

\* the loop is over: the response is built from the plan
Respond ==
    /\ pc = "loop"
    /\ idx > Len(parsed.items)
    /\ LET a == AnswerModel(parsed, tool_calls)
       IN  Finish(IF a.ok THEN a.value
                  ELSE OuterExcept("ValidationError",
                                   <<"validation error for FinancialAnswerSchema">>))
    /\ UNCHANGED <<reqPhone, parsed, events, llmOut, llmCalls>>
    /\ UNCHANGED otherVars
    /\ UNCHANGED <<now, dateCalls, toolVars>>

Next ==
    \/ \E phone \in CallerPhones : AskStart(phone)
    \/ \E o \in LlmOutcomes : LlmFail(o)
    \/ \E o \in LlmOutcomes : LlmReturn(o)
    \/ Dispatch
    \/ ToolReturn
    \/ ToolDbFail
    \/ Respond

Spec == Init /\ [][Next]_vars

\* the calls ask awaits: the chat-completion call and the tool's query
AwaitedCallEnds ==
    \/ \E o \in LlmOutcomes : LlmFail(o)
    \/ \E o \in LlmOutcomes : LlmReturn(o)
    \/ ToolReturn
    \/ ToolDbFail

\* the steps of ask that await nothing
OwnStep == Dispatch \/ Respond

\* ask when each awaited call returns or fails and the coroutine is resumed
SpecLive == Spec /\ WF_vars(AwaitedCallEnds) /\ WF_vars(OwnStep)

-----------------------------------------------------------------------------
(* The period resolver applied at every instant: specification SpecDate *)

Years == (2023 .. (2023 + MaxYearOffset)) \cup {2000, 2100}

TimesOfDay ==
    { [h |-> 0, mi |-> 0, s |-> 0, us |-> 0],
      [h |-> 12, mi |-> 30, s |-> 15, us |-> 500],
      [h |-> 23, mi |-> 59, s |-> 59, us |-> 999999] }

Instants ==
    { [y |-> y, mo |-> mo, d |-> d, h |-> t.h, mi |-> t.mi, s |-> t.s, us |-> t.us] :
        <<y, mo, d, t>> \in
            { q \in Years \X (1..12) \X (1..31) \X TimesOfDay :
                q[3] <= DaysInMonth(q[1], q[2]) } }

InitDate ==
    /\ now \in Instants
    /\ DateIdle
    /\ AskIdle
    /\ ChatIdle
    /\ FmtIdle
    /\ SerIdle
    /\ ToolsIdle

GetDateRange(p) ==
    /\ dateCalls[p] = NotCalled
    /\ dateCalls' = [dateCalls EXCEPT ![p] = get_date_range(now, p)]
    /\ UNCHANGED otherVars
    /\ UNCHANGED <<now, toolVars, askVars>>

NextDate == \E p \in PeriodInputs : GetDateRange(p)

SpecDate == InitDate /\ [][NextDate]_vars

-----------------------------------------------------------------------------
(* AIService.chat behind POST /ai/chat: specification SpecChat *)

\* the base class of an exception class (openai's hierarchy, Python's above it)
BaseOf(cls) ==
    IF cls \in {"BadRequestError", "AuthenticationError", "PermissionDeniedError",
                "NotFoundError", "ConflictError", "UnprocessableEntityError",
                "RateLimitError", "InternalServerError"}
    THEN "APIStatusError"
    ELSE IF cls = "APITimeoutError" THEN "APIConnectionError"
    ELSE IF cls \in {"APIStatusError", "APIConnectionError",
                     "APIResponseValidationError"}
    THEN "APIError"
    ELSE IF cls = "APIError" THEN "OpenAIError"
    ELSE IF cls \in {"InsufficientBalanceException", "RateLimitException",
                     "InvalidAPIKeyException", "AIServiceUnavailableException",
                     "AITimeoutException"}
    THEN "AIServiceException"
    ELSE IF cls = "Exception" THEN "BaseException"
    ELSE "Exception"

\* except <base>: whether it catches an exception of class cls
RECURSIVE IsInstance(_, _)
IsInstance(cls, base) ==
    IF cls = base THEN TRUE
    ELSE IF cls = "BaseException" THEN FALSE
    ELSE IsInstance(BaseOf(cls), base)

\* the class the client raises for an HTTP error status of the provider
ClassOfStatus(status) ==
    IF status = 400 THEN "BadRequestError"
    ELSE IF status = 401 THEN "AuthenticationError"
    ELSE IF status = 403 THEN "PermissionDeniedError"
    ELSE IF status = 404 THEN "NotFoundError"
    ELSE IF status = 409 THEN "ConflictError"
    ELSE IF status = 422 THEN "UnprocessableEntityError"
    ELSE IF status = 429 THEN "RateLimitError"
    ELSE IF status >= 500 THEN "InternalServerError"
    ELSE "APIStatusError"

\* app.core.exceptions
AIServiceException(message, status_code, error_code) ==
    ChatRaise("AIServiceException", message, status_code, error_code)
InsufficientBalanceException ==
    ChatRaise("InsufficientBalanceException",
              <<"AI service has insufficient balance. Please contact support.">>,
              402, "insufficient_balance")
RateLimitException ==
    ChatRaise("RateLimitException",
              <<"AI service rate limit exceeded. Please try again later.">>,
              429, "rate_limit_exceeded")
InvalidAPIKeyException ==
    ChatRaise("InvalidAPIKeyException",
              <<"AI service configuration error. Please contact support.">>,
              500, "invalid_api_key")
AIServiceUnavailableException(message) ==
    ChatRaise("AIServiceUnavailableException", message, 503, "service_unavailable")
AITimeoutException ==
    ChatRaise("AITimeoutException",
              <<"AI service request timed out. Please try again.">>,
              504, "request_timeout")

\* the status branch without the case of rejected credentials
StatusExcept_NoCredentialCase(status, message) ==
    IF status = 402 THEN InsufficientBalanceException
    ELSE IF status = 429 THEN RateLimitException
    ELSE IF status >= 500
    THEN AIServiceUnavailableException(
            <<"AI service is experiencing issues (Status: ", "<status>", ")">>)
    ELSE AIServiceException(<<"AI service error: ">> \o message, status, "api_error")

\* except APIStatusError as e
StatusExcept(status, message) ==
    IF status = 402 THEN InsufficientBalanceException
    ELSE IF status = 401 THEN InvalidAPIKeyException
    ELSE IF status = 429 THEN RateLimitException
    ELSE IF status >= 500
    THEN AIServiceUnavailableException(
            <<"AI service is experiencing issues (Status: ", "<status>", ")">>)
    ELSE AIServiceException(<<"AI service error: ">> \o message, status, "api_error")

\* the except clauses of chat, in their order
ChatExcept(cls, status, message) ==
    IF IsInstance(cls, "APIStatusError") THEN StatusExcept(status, message)
    ELSE IF IsInstance(cls, "RateLimitError") THEN RateLimitException
    ELSE IF IsInstance(cls, "APITimeoutError") THEN AITimeoutException
    ELSE IF IsInstance(cls, "APIConnectionError")
    THEN AIServiceUnavailableException(
            <<"Unable to connect to AI service. Please check your internet connection.">>)
    ELSE AIServiceException(
            <<"An unexpected error occurred while processing your request.">>,
            500, "internal_error")

\* chat, from the provider's outcome: response.choices[0] of a completion
\* without choices raises IndexError inside the try
chat(prov) ==
    IF prov.raised THEN ChatExcept(prov.cls, prov.status, prov.message)
    ELSE IF prov.choices = 0 THEN ChatExcept("IndexError", 0, <<"list index out of range">>)
    ELSE ChatReturn(prov.content)

\* ai_service_exception_handler
ai_service_exception_handler(exc) ==
    Http(exc.status_code, exc.error_code, exc.message)

\* general_exception_handler
general_exception_handler ==
    Http(500, "internal_server_error",
         Some(<<"An unexpected error occurred. Please try again later.">>))

\* the responses of POST /ai/chat to what chat did: the handler registered for
\* the nearest class of the exception; for a returned message the response
\* model (not part of this source tree) accepts it, or rejects a null one
HttpResponses(res) ==
    IF res.kind = "raised"
    THEN IF IsInstance(res.cls, "AIServiceException")
         THEN { ai_service_exception_handler(res) }
         ELSE { general_exception_handler }
    ELSE IF res.message.isNone
    THEN { Http(200, "", None), general_exception_handler }
    ELSE { Http(200, "", res.message) }

ProviderStatuses == {400, 401, 402, 403, 404, 409, 413, 422, 429, 500, 502, 503}

ProviderOutcomes ==
    { ProvRaise(ClassOfStatus(st), st, <<"provider says no">>) : st \in ProviderStatuses }
    \cup { ProvRaise("APITimeoutError", 0, <<"Request timed out.">>),
           ProvRaise("APIConnectionError", 0, <<"Connection error.">>),
           ProvRaise("APIResponseValidationError", 200,
                     <<"Data returned by API invalid for expected schema.">>),
           ProvRaise("RuntimeError", 0, <<"Event loop is closed">>),
           ProvReturn(0, None),
           ProvReturn(1, None),
           ProvReturn(1, Some(<<"Hello!">>)) }

ChatMessages == { <<"Hi">>, <<"How much did I spend?">>, <<>> }

InitChat ==
    /\ now = ClockSeq[1]
    /\ DateIdle
    /\ ToolsIdle
    /\ AskIdle
    /\ ChatIdle
    /\ FmtIdle
    /\ SerIdle

NotChat == <<now, dateCalls, toolVars, askVars, fmtVars, serVars>>

\* POST /ai/chat: chat is called and awaits the provider
ChatStart(message) ==
    /\ chatPc = "idle"
    /\ chatPc' = "await"
    /\ chatMsg' = message
    /\ UNCHANGED <<chatProv, chatRes, httpResp>>
    /\ UNCHANGED NotChat

\* the provider call ends: chat returns or raises
ChatEnd(prov) ==
    /\ chatPc = "await"
    /\ chatProv' = prov
    /\ chatRes' = chat(prov)
    /\ chatPc' = "done"
    /\ UNCHANGED <<chatMsg, httpResp>>
    /\ UNCHANGED NotChat

\* the application answers the HTTP request
ChatRespond ==
    /\ chatPc = "done"
    /\ httpResp' \in HttpResponses(chatRes)
    /\ chatPc' = "responded"
    /\ UNCHANGED <<chatMsg, chatProv, chatRes>>
    /\ UNCHANGED NotChat

NextChat ==
    \/ \E message \in ChatMessages : ChatStart(message)
    \/ \E prov \in ProviderOutcomes : ChatEnd(prov)
    \/ ChatRespond

SpecChat == InitChat /\ [][NextChat]_vars

-----------------------------------------------------------------------------
(* FinancialAgentService.format_response_naturally: specification SpecFormat *)

\* pieces of text made of whitespace only
Whitespace == {" ", "\n", "\n\n", "\t"}

\* str.lstrip(), str.rstrip() and str.strip() over the pieces of a text
RECURSIVE LStrip(_)
LStrip(txt) ==
    IF txt = <<>> THEN <<>>
    ELSE IF Head(txt) \in Whitespace THEN LStrip(Tail(txt))
    ELSE txt

RECURSIVE RStrip(_)
RStrip(txt) ==
    IF txt = <<>> THEN <<>>
    ELSE IF txt[Len(txt)] \in Whitespace THEN RStrip(SubSeq(txt, 1, Len(txt) - 1))
    ELSE txt

Strip(txt) == RStrip(LStrip(txt))

\* the tool summary and the prompt (before the try): json.dumps raises
\* TypeError for params it cannot serialize
BuildPrompt(resp) ==
    IF resp.tool_calls # <<>> /\ ~resp.serializable
    THEN [ok |-> FALSE, exc |-> "TypeError"]
    ELSE [ok |-> TRUE, exc |-> ""]

\* the handler letting the failure through
FormatExcept_Reraise(resp) == FmtRaise("Exception")

\* except Exception: the original answer and the note
FormatExcept(resp) ==
    FmtReturn(resp.answer \o <<"\n\n(Note: Enhanced formatting unavailable)">>)

\* the try block, from the outcome of the chat-completion call:
\* choices[0] of no choices raises IndexError, None.strip() AttributeError
FormatTry(resp, prov) ==
    IF prov.raised \/ prov.choices = 0 \/ prov.content.isNone
    THEN FormatExcept(resp)
    ELSE FmtReturn(Strip(prov.content.s))

\* structured answers handed to the formatter
FormatInputs ==
    { StructuredAnswer(a, c, k, s) :
        <<a, c, k, s>> \in
            {<<"You spent 3000 KES.">>, <<>>, <<" ", "Hello.", "\n">>}
            \X {<<>>, <<"get_spending_summary">>,
                <<"get_top_recipients", "get_payment_trends">>}
            \X {"high", "low"}
            \X BOOLEAN }

\* the outcomes of the formatter's chat-completion call
FormatOutcomes ==
    { ProvRaise("APITimeoutError", 0, <<"Request timed out.">>),
      ProvRaise("AuthenticationError", 401, <<"Incorrect API key">>),
      ProvReturn(0, None),
      ProvReturn(1, None),
      ProvReturn(1, Some(<<"You spent 3,000 KES this month.">>)),
      ProvReturn(1, Some(<<"\n", "You spent", " ", "3,000 KES.", " ", "\n\n">>)),
      ProvReturn(1, Some(<<" ", "\n">>)),
      ProvReturn(1, Some(<<>>)) }

InitFormat ==
    /\ now = ClockSeq[1]
    /\ DateIdle
    /\ ToolsIdle
    /\ AskIdle
    /\ ChatIdle
    /\ FmtIdle
    /\ SerIdle

NotFormat == <<now, dateCalls, toolVars, askVars, chatVars, serVars>>

\* format_response_naturally is called: the prompt is built and the
\* chat-completion call awaited, or building the prompt raises
FormatStart(resp) ==
    /\ fmtPc = "idle"
    /\ fmtIn' = resp
    /\ fmtArg' = resp
    /\ IF BuildPrompt(resp).ok
       THEN fmtPc' = "await" /\ fmtOut' = fmtOut
       ELSE fmtPc' = "done" /\ fmtOut' = FmtRaise(BuildPrompt(resp).exc)
    /\ UNCHANGED fmtLlm
    /\ UNCHANGED NotFormat

\* the chat-completion call ends and the formatter returns
FormatEnd(prov) ==
    /\ fmtPc = "await"
    /\ fmtLlm' = prov
    /\ fmtOut' = FormatTry(fmtArg, prov)
    /\ fmtPc' = "done"
    /\ UNCHANGED <<fmtIn, fmtArg>>
    /\ UNCHANGED NotFormat

NextFormat ==
    \/ \E resp \in FormatInputs : FormatStart(resp)
    \/ \E prov \in FormatOutcomes : FormatEnd(prov)

SpecFormat == InitFormat /\ [][NextFormat]_vars

-----------------------------------------------------------------------------
(* _serialize_result on its own: specification SpecSerialize *)

\* values without parts: null, text, an enum text, a count, an amount, an
\* average, a float, a timestamp
Leaves ==
    { NoneV, Str(<<"MPESA">>), IntV(2), Money(300000), Dec(100000, 3), Flt(1, 2),
      Dtv(Dt(2024, 1, 15, 9, 0, 0, 0)) }

\* containers one level above the values of S
Nest(S) ==
    S \cup { List(<<>>), Dict([x \in {} |-> NoneV]) }
      \cup { List(<<v>>) : v \in S }
      \cup { List(<<v, l>>) : <<v, l>> \in S \X Leaves }
      \cup { List(<<l, v>>) : <<l, v>> \in Leaves \X S }
      \cup { Dict([total |-> v]) : v \in S }
      \cup { Dict([date |-> l, total |-> v]) : <<l, v>> \in Leaves \X S }

RECURSIVE Values(_)
Values(d) == IF d = 0 THEN Leaves ELSE Nest(Values(d - 1))

InitSerialize ==
    /\ now = ClockSeq[1]
    /\ DateIdle
    /\ ToolsIdle
    /\ AskIdle
    /\ ChatIdle
    /\ FmtIdle
    /\ serPc = "idle"
    /\ serIn \in Values(MaxDepth)
    /\ serOut = NoneV

NotSerialize == <<now, dateCalls, toolVars, askVars, chatVars, fmtVars>>

\* _serialize_result(result)
Serialize ==
    /\ serPc = "idle"
    /\ serOut' = _serialize_result(serIn)
    /\ serPc' = "once"
    /\ UNCHANGED serIn
    /\ UNCHANGED NotSerialize

\* _serialize_result applied to what it returned
SerializeAgain ==
    /\ serPc = "once"
    /\ serOut' = _serialize_result(serOut)
    /\ serPc' = "twice"
    /\ UNCHANGED serIn
    /\ UNCHANGED NotSerialize

NextSerialize == Serialize \/ SerializeAgain

SpecSerialize == InitSerialize /\ [][NextSerialize]_vars

-----------------------------------------------------------------------------
(* The operations of the core one after another: specification SpecCore *)

\* the tables of the requests checked
CoreTables == { AskTable, { r \in AllRows : r.id \in {4, 8} } }

\* page sizes of a payment listing
PageSizes == {1, 50}

\* no request is in progress
AllIdle == tphase = "idle" /\ pc = "idle" /\ chatPc = "idle" /\ fmtPc = "idle"

InitCore ==
    /\ now = ClockSeq[1]
    /\ table \in CoreTables
    /\ tcall = NoCall
    /\ tphase = "idle"
    /\ tquery = NoQuery
    /\ tout = NoOutcome
    /\ dbLog = <<>>
    /\ DateIdle
    /\ AskIdle
    /\ ChatIdle
    /\ FmtIdle
    /\ SerIdle

\* GET /payments: one page of EndUserPayment.all(), in the order the
\* database gives the rows
ListPayments(size) ==
    /\ AllIdle
    /\ tcall' = [tool |-> "GET /payments", kw |-> [size |-> size]]
    /\ tquery' = Query("get_all_payments", NoDate, NoDate, "", None, size, <<>>, "")
    /\ dbLog' = Append(dbLog, tquery')
    /\ \E q \in Orderings(table, LAMBDA a, b : FALSE) :
          tout' = ToolOk(List([i \in 1..Len(Limit(q, size)) |-> IntV(q[i].id)]))
    /\ table' \in DbEffect(table, tquery')
    /\ tphase' = "done"
    /\ UNCHANGED otherVars
    /\ UNCHANGED <<now, dateCalls, askVars>>

\* the request in progress is over and the next one may begin: the table and
\* the clock stay as they are
NextRequest ==
    /\ tphase = "done" \/ pc = "done" \/ chatPc = "responded" \/ fmtPc = "done"
    /\ UNCHANGED <<now, table, dateCalls>>
    /\ tcall' = NoCall /\ tphase' = "idle" /\ tquery' = NoQuery
    /\ tout' = NoOutcome /\ dbLog' = <<>>
    /\ pc' = "idle" /\ reqPhone' = None /\ parsed' = NoDoc /\ idx' = 0
    /\ tool_calls' = <<>> /\ response' = NoResponse /\ events' = <<>>
    /\ llmOut' = NoLlm /\ llmCalls' = 0
    /\ chatPc' = "idle" /\ chatMsg' = <<>> /\ chatProv' = NoProv
    /\ chatRes' = NoChat /\ httpResp' = NoHttp
    /\ fmtPc' = "idle" /\ fmtIn' = NoAnswer /\ fmtArg' = NoAnswer
    /\ fmtLlm' = NoProv /\ fmtOut' = NoFmt
    /\ UNCHANGED serVars

\* one request at a time: a tool call, an ask request, a chat request, a prose
\* rewrite or a payment listing, then the next
NextCore ==
    \/ pc = "idle" /\ chatPc = "idle" /\ fmtPc = "idle" /\ NextTools
    \/ (tphase = "idle" \/ pc # "idle") /\ chatPc = "idle" /\ fmtPc = "idle" /\ Next
    \/ tphase = "idle" /\ pc = "idle" /\ fmtPc = "idle" /\ NextChat
    \/ tphase = "idle" /\ pc = "idle" /\ chatPc = "idle" /\ NextFormat
    \/ \E size \in PageSizes : ListPayments(size)
    \/ NextRequest

SpecCore == InitCore /\ [][NextCore]_vars

-----------------------------------------------------------------------------
(* Properties of FinancialAgentService.ask, checked under Spec *)

\* the LLM returned a JSON object whose tool_calls could be iterated: the loop
\* of ask was entered
PlanLoaded ==
    /\ ~llmOut.raised
    /\ ~llmOut.content.isNone
    /\ llmOut.content.isJson
    /\ parsed = llmOut.content.doc
    /\ parsed.isObject
    /\ parsed.tcKind # "notseq"

\* the call of plan entry i was begun / raised
CallBegun(i) ==
    \E k \in DOMAIN events : events[k].kind = "start" /\ events[k].i = i
CallFailed(i) ==
    \E k \in DOMAIN events :
        events[k].kind = "end" /\ events[k].i = i /\ ~events[k].ok

\* the answer and the confidence the plan gives, with ask's defaults
PlanAnswer ==
    IF parsed.answer.kind = "absent" THEN <<"I couldn't generate an answer.">>
    ELSE <<parsed.answer.s>>
PlanConfidence ==
    IF parsed.confidence.kind = "absent" THEN "medium" ELSE parsed.confidence.s

IsErrorRecord(rec) ==
    /\ rec.result.t = "dict"
    /\ DOMAIN rec.result.f = {"error"}
    /\ rec.result.f.error.t = "str"
    /\ Len(rec.result.f.error.s) >= 1

\* C1: when the i-th tool call of a plan fails, a record whose result is
\* {"error": <message>} is appended for it, every later plan entry is still
\* dispatched, and the response is returned normally with the plan's answer.
C1_FailureIsolated ==
    (pc = "done" /\ PlanLoaded) =>
        \A i \in 1..Len(parsed.items) :
            CallFailed(i) =>
                /\ response.kind = "returned"
                /\ Len(response.tool_calls) >= i
                /\ IsErrorRecord(response.tool_calls[i])
                /\ \A j \in (i + 1)..Len(parsed.items) : CallBegun(j)
                /\ response.answer = PlanAnswer

NotJsonText ==
    /\ llmOut # NoLlm
    /\ ~llmOut.raised
    /\ ~llmOut.content.isNone
    /\ ~llmOut.content.isJson

\* C3: when the LLM's output is text that does not parse as JSON, ask returns
\* the fixed apology with an empty tool-call list and confidence "low", and no
\* tool is executed.
C3_UnparseableOutput ==
    NotJsonText =>
        /\ pc = "done"
        /\ response =
              Returned(<<"I'm sorry, I couldn't process your question. Could you rephrase it?">>,
                       <<>>, "low")
        /\ events = <<>>
        /\ dbLog = <<>>
        /\ tool_calls = <<>>

C3_Witness ==
    /\ NotJsonText
    /\ pc = "done"
    /\ response.kind = "returned"
    /\ response.confidence = "low"

\* an exception escaped the plan or execute stage: the LLM call raised, the
\* content was None, the document was no object or its tool_calls no list, the
\* loop stopped before the end of the plan, or the response could not be built
Escaped ==
    /\ pc = "done"
    /\ llmOut # NoLlm
    /\ \/ llmOut.raised
       \/ llmOut.content.isNone
       \/ /\ llmOut.content.isJson
          /\ \/ ~llmOut.content.doc.isObject
             \/ llmOut.content.doc.tcKind = "notseq"
             \/ idx <= Len(llmOut.content.doc.items)
             \/ llmOut.content.doc.answer.kind = "other"
             \/ llmOut.content.doc.confidence.kind = "other"

PhoneKey == "consumer_phone_number"

\* C5: when the caller supplies a (non-empty) subject filter, every tool call
\* the request dispatches, every query it issues and every record it makes
\* carries exactly that value, whatever the plan put under the same key.
C5_CallerFilterWins ==
    Truthy(reqPhone) =>
        /\ \A k \in DOMAIN events :
              /\ events[k].params.kind = "dict"
              /\ PhoneKey \in DOMAIN events[k].params.kw
              /\ events[k].params.kw[PhoneKey] = reqPhone.s
        /\ \A k \in DOMAIN dbLog : dbLog[k].phone = Some(reqPhone.s)
        /\ \A k \in DOMAIN tool_calls :
              /\ PhoneKey \in DOMAIN tool_calls[k].params
              /\ tool_calls[k].params[PhoneKey] = reqPhone.s
        /\ \A k \in DOMAIN response.tool_calls :
              /\ PhoneKey \in DOMAIN response.tool_calls[k].params
              /\ response.tool_calls[k].params[PhoneKey] = reqPhone.s

\* C5 witness: the plan named another subject, and the recorded call carries
\* the caller's
C5_Witness ==
    /\ pc = "done"
    /\ reqPhone = Some(P1)
    /\ PlanLoaded
    /\ \E i \in DOMAIN response.tool_calls :
          /\ parsed.items[i].params.kind = "dict"
          /\ PhoneKey \in DOMAIN parsed.items[i].params.kw
          /\ parsed.items[i].params.kw[PhoneKey] = P2
          /\ response.tool_calls[i].params[PhoneKey] = P1
          /\ dbLog # <<>>

\* the calls are made one at a time, in plan order: the events are start 1,
\* end 1, start 2, end 2, ... of the plan's entries
OneAtATime ==
    \A k \in DOMAIN events :
        /\ events[k].i = (k + 1) \div 2
        /\ events[k].kind = (IF k % 2 = 1 THEN "start" ELSE "end")
        /\ events[k].i <= Len(parsed.items)
        /\ events[k].tool = parsed.items[events[k].i].tool

\* one record per plan entry, in plan order
RecordPerEntry(calls) ==
    /\ Len(calls) = Len(parsed.items)
    /\ \A i \in DOMAIN calls :
          /\ ~parsed.items[i].tool.isNone
          /\ calls[i].tool = parsed.items[i].tool.s

\* C7 as stated: the calls of one request are dispatched one after the other
\* in plan order, and the returned records are in plan order with exactly one
\* record per plan entry.
C7_Original ==
    /\ OneAtATime
    /\ (pc = "done" /\ PlanLoaded) => RecordPerEntry(response.tool_calls)

\* C7 amended: the calls are dispatched one at a time in plan order; when ask
\* returns the plan's answer the returned records are in plan order, exactly
\* one per plan entry; when it ends in the error fallback the returned list is
\* empty and the calls made were those of the plan's first entries.
C7_SequentialRecords ==
    /\ OneAtATime
    /\ Len(events) <= 2 * Len(tool_calls) + 2
    /\ (pc = "done" /\ PlanLoaded /\ ~Escaped) =>
          /\ RecordPerEntry(response.tool_calls)
          /\ Len(events) = 2 * Len(parsed.items)
    /\ (pc = "done" /\ PlanLoaded /\ Escaped) =>
          /\ response.tool_calls = <<>>
          /\ Len(events) <= 2 * idx

\* C7 witness: a plan of two different tools was answered normally, the first
\* call having failed
C7_Witness ==
    /\ pc = "done"
    /\ PlanLoaded
    /\ ~Escaped
    /\ Len(response.tool_calls) = 2
    /\ response.tool_calls[1].tool # response.tool_calls[2].tool
    /\ IsErrorRecord(response.tool_calls[1])
    /\ ~IsErrorRecord(response.tool_calls[2])

-----------------------------------------------------------------------------
(* Properties of get_date_range, checked under SpecDate *)

\* the calendar: the number of days of a month
MonthLength(y, mo) ==
    IF mo = 2
    THEN (IF (y % 4 = 0 /\ y % 100 # 0) \/ y % 400 = 0 THEN 29 ELSE 28)
    ELSE <<31, 28, 31, 30, 31, 30, 31, 31, 30, 31, 30, 31>>[mo]

FirstInstant(y, mo, d) ==
    [y |-> y, mo |-> mo, d |-> d, h |-> 0, mi |-> 0, s |-> 0, us |-> 0]
LastInstant(y, mo, d) ==
    [y |-> y, mo |-> mo, d |-> d, h |-> 23, mi |-> 59, s |-> 59, us |-> 999999]

\* the calendar month before the one of n: <<year, month>>
PreviousMonth(n) == IF n.mo = 1 THEN <<n.y - 1, 12>> ELSE <<n.y, n.mo - 1>>

\* the calendar unit a token implies at instant n: its first and last instant
ImpliedUnit(n, token) ==
    IF token = "this_month"
    THEN <<FirstInstant(n.y, n.mo, 1), LastInstant(n.y, n.mo, MonthLength(n.y, n.mo))>>
    ELSE IF token = "last_month"
    THEN LET pm == PreviousMonth(n)
         IN  <<FirstInstant(pm[1], pm[2], 1),
               LastInstant(pm[1], pm[2], MonthLength(pm[1], pm[2]))>>
    ELSE IF token = "this_year"
    THEN <<FirstInstant(n.y, 1, 1), LastInstant(n.y, 12, 31)>>
    ELSE <<FirstInstant(n.y - 1, 1, 1), LastInstant(n.y - 1, 12, 31)>>

\* a is not after b, compared field by field
NotAfter(a, b) ==
    <<a.y, a.mo, a.d, a.h, a.mi, a.s, a.us>> = <<b.y, b.mo, b.d, b.h, b.mi, b.s, b.us>>
    \/ \E k \in 1..7 :
          LET x == <<a.y, a.mo, a.d, a.h, a.mi, a.s, a.us>>
              y == <<b.y, b.mo, b.d, b.h, b.mi, b.s, b.us>>
          IN  x[k] < y[k] /\ \A j \in 1..(k - 1) : x[j] = y[j]

NextInstant(dt) ==
    IF dt.us < 999999 THEN [dt EXCEPT !.us = dt.us + 1]
    ELSE IF dt.s < 59 THEN [dt EXCEPT !.us = 0, !.s = dt.s + 1]
    ELSE IF dt.mi < 59 THEN [dt EXCEPT !.us = 0, !.s = 0, !.mi = dt.mi + 1]
    ELSE IF dt.h < 23 THEN [dt EXCEPT !.us = 0, !.s = 0, !.mi = 0, !.h = dt.h + 1]
    ELSE IF dt.d < MonthLength(dt.y, dt.mo)
    THEN FirstInstant(dt.y, dt.mo, dt.d + 1)
    ELSE IF dt.mo < 12 THEN FirstInstant(dt.y, dt.mo + 1, 1)
    ELSE FirstInstant(dt.y + 1, 1, 1)

\* C9: at every instant, the ranges of last_month and this_month computed at
\* it do not overlap and are adjacent: last_month ends at 23:59:59.999999, the
\* next instant is this_month's start, and last_month is exactly the calendar
\* month before the current one.
C9_MonthsAdjacent ==
    (dateCalls["last_month"] # NotCalled /\ dateCalls["this_month"] # NotCalled) =>
        LET last == dateCalls["last_month"]
            this == dateCalls["this_month"]
        IN  /\ last.ok /\ this.ok
            /\ NotAfter(last.end, this.start) /\ last.end # this.start
            /\ NextInstant(last.end) = this.start
            /\ <<last.end.h, last.end.mi, last.end.s, last.end.us>>
                  = <<23, 59, 59, 999999>>
            /\ <<last.start.y, last.start.mo>> = PreviousMonth(now)
            /\ <<last.end.y, last.end.mo>> = PreviousMonth(now)
            /\ last.start = FirstInstant(last.start.y, last.start.mo, 1)
            /\ last.end.d = MonthLength(last.end.y, last.end.mo)
            /\ <<this.start.y, this.start.mo>> = <<now.y, now.mo>>

\* C9 witness: in January both ranges have been resolved; last_month is the
\* December of the year before
C9_Witness ==
    /\ now.mo = 1 /\ now.d = 31
    /\ dateCalls["last_month"].ok
    /\ dateCalls["this_month"].ok
    /\ dateCalls["last_month"].start.mo = 12
    /\ dateCalls["last_month"].start.y = now.y - 1

-----------------------------------------------------------------------------
(* Properties of the tools, checked under SpecTools *)

\* the rows of one subject
SubjectRows(T, phone) == { r \in T : r.consumer_phone_number = phone }

\* what the call in progress may return over table T
PossibleResults(T) ==
    { ToolPost(now, tcall.tool, tcall.kw, tquery, res.value) :
        res \in { x \in DbRun(T, tquery) : x.ok } }

\* C6: for each of the five tools, when a subject filter is supplied, the
\* result is computed only from the payments of exactly that subject: it is a
\* result the same call gives over the table that holds the subject's rows and
\* no others.  (Stated for the non-empty values; the tools take the empty
\* string as no filter.)
C6_SubjectIsolation ==
    (/\ tphase = "done"
     /\ tout.ok
     /\ PhoneKey \in DOMAIN tcall.kw
     /\ tcall.kw[PhoneKey] # <<>>) =>
        tout.value \in PossibleResults(SubjectRows(table, tcall.kw[PhoneKey]))

\* the period argument of the call in progress, by the tool's default when the
\* call gives none
PeriodTools == {"get_spending_summary", "get_top_recipients",
                "get_spending_by_category"}
PeriodOfCall ==
    IF "period" \in DOMAIN tcall.kw THEN tcall.kw["period"]
    ELSE IF tcall.tool = "get_top_recipients" THEN "all_time" ELSE "this_month"

NamesTokenAndOptions(msg, token) ==
    /\ Len(msg) >= 2
    /\ msg[1] = "Unknown period: "
    /\ msg[2] = token
    /\ \A t \in {"this_month", "last_month", "this_year", "last_year", "all_time"} :
          \E k \in DOMAIN msg : msg[k] = t

UnknownPeriodCall ==
    /\ tcall.tool \in PeriodTools
    /\ PeriodOfCall \notin {"this_month", "last_month", "this_year", "last_year",
                           "all_time"}

TopLimitOutOfRange ==
    /\ tcall.tool = "get_top_recipients"
    /\ "limit" \in DOMAIN tcall.kw
    /\ (tcall.kw["limit"] < 1 \/ tcall.kw["limit"] > 20)

\* get_date_range rejects every token outside the five with a ValueError that
\* names the token and lists the valid ones
ResolverRejects ==
    \A token \in PeriodInputs \ {"this_month", "last_month", "this_year",
                                 "last_year", "all_time"} :
        LET r == get_date_range(now, token)
        IN  /\ ~r.ok
            /\ r.exc = "ValueError"
            /\ NamesTokenAndOptions(r.msg, token)

\* C10 as stated: get_date_range rejects every unknown token with a ValueError
\* naming it and listing the valid ones, and every tool that takes a period
\* fails with that error before issuing any database query.
C10_Original ==
    /\ ResolverRejects
    /\ (tcall # NoCall /\ UnknownPeriodCall) =>
          /\ tphase = "done"
          /\ ~tout.ok
          /\ tout.exc = "ValueError"
          /\ NamesTokenAndOptions(tout.msg, PeriodOfCall)
          /\ dbLog = <<>>

\* C10 amended: as stated, except that get_top_recipients called with a limit
\* outside 1..20 fails with the ValueError of the limit instead; in every case
\* the tool raises ValueError before issuing any database query.
C10_UnknownPeriodRejected ==
    /\ ResolverRejects
    /\ (tcall # NoCall /\ UnknownPeriodCall) =>
          /\ tphase = "done"
          /\ ~tout.ok
          /\ tout.exc = "ValueError"
          /\ dbLog = <<>>
          /\ IF TopLimitOutOfRange
             THEN tout.msg = <<"Limit must be between 1 and 20">>
             ELSE NamesTokenAndOptions(tout.msg, PeriodOfCall)

\* C10 witness: get_spending_by_category was called with the token
\* "yesterday" and has raised
C10_Witness ==
    /\ tcall.tool = "get_spending_by_category"
    /\ UnknownPeriodCall
    /\ tphase = "done"
    /\ tout.exc = "ValueError"
    /\ tout.msg[2] = "yesterday"

\* the limit of the call in progress (the tool's default when none is given)
\* and the largest limit its tool accepts
LimitTools == {"get_payments_by_recipient", "get_top_recipients",
               "get_payment_trends"}
LimitOfCall ==
    IF "limit" \in DOMAIN tcall.kw THEN tcall.kw["limit"]
    ELSE IF tcall.tool = "get_payments_by_recipient" THEN 10
    ELSE IF tcall.tool = "get_top_recipients" THEN 5
    ELSE 12
LargestLimit ==
    IF tcall.tool = "get_payments_by_recipient" THEN 100
    ELSE IF tcall.tool = "get_top_recipients" THEN 20
    ELSE 365
LimitError ==
    IF tcall.tool = "get_payments_by_recipient"
    THEN <<"Limit must be between 1 and 100">>
    ELSE IF tcall.tool = "get_top_recipients"
    THEN <<"Limit must be between 1 and 20">>
    ELSE <<"Limit must be between 1 and 365">>

\* C11: get_payments_by_recipient accepts exactly the limits 1..100,
\* get_top_recipients 1..20 and get_payment_trends 1..365: a limit outside the
\* range fails with ValueError and no query is issued; a limit inside it
\* (1 and the maximum included) is not refused and is the LIMIT of the query.
C11_LimitBounds ==
    (tcall # NoCall /\ tcall.tool \in LimitTools) =>
        IF LimitOfCall < 1 \/ LimitOfCall > LargestLimit
        THEN /\ tphase = "done"
             /\ ~tout.ok
             /\ tout.exc = "ValueError"
             /\ tout.msg = LimitError
             /\ dbLog = <<>>
        ELSE /\ tout.msg # LimitError
             /\ ~UnknownPeriodCall =>
                   /\ Len(dbLog) = 1
                   /\ dbLog[1].limit = LimitOfCall
                   /\ tout.exc # "ValueError"

\* C11 witness: get_payments_by_recipient has returned for limit 100
C11_Witness ==
    /\ tcall.tool = "get_payments_by_recipient"
    /\ "limit" \in DOMAIN tcall.kw
    /\ tcall.kw["limit"] = 100
    /\ tphase = "done"
    /\ tout.ok
    /\ Len(dbLog) = 1

\* the clock readings the call in progress may have seen
ReadingsSoFar ==
    { ClockSeq[k] : k \in { j \in DOMAIN ClockSeq : NotAfter(ClockSeq[j], now) } }

\* the arguments of the get_spending_summary call in progress
SummaryDirection ==
    IF "direction" \in DOMAIN tcall.kw THEN tcall.kw["direction"] ELSE "outgoing"

\* r is paid within the calendar unit the period implies at instant n
PaidInPeriod(r, n, period) ==
    \/ period = "all_time"
    \/ /\ r.paid_at # NoDate
       /\ NotAfter(ImpliedUnit(n, period)[1], r.paid_at)
       /\ NotAfter(r.paid_at, ImpliedUnit(n, period)[2])

\* the rows a summary is about: direction, period resolved at n, subject
SummaryRows(n) ==
    { r \in table :
        /\ SummaryDirection = "all" \/ r.direction = SummaryDirection
        /\ PaidInPeriod(r, n, PeriodOfCall)
        /\ PhoneKey \in DOMAIN tcall.kw =>
              r.consumer_phone_number = tcall.kw[PhoneKey] }

RECURSIVE CentsOf(_)
CentsOf(rows) ==
    IF rows = {} THEN 0
    ELSE LET r == CHOOSE x \in rows : TRUE IN r.amount + CentsOf(rows \ {r})

\* C12: get_spending_summary returns total = the exact sum of amount and
\* count = the number of the rows matching the direction ("all": every
\* direction), the period's date range and the subject when one is given; with
\* no matching row the total is 0.00 and the count 0, never null, never an
\* error.  (Periods among the five tokens; direction outgoing, incoming or
\* all; a subject, when given, non-empty; the database answers.)
C12_SummaryTotals ==
    (/\ tcall.tool = "get_spending_summary"
     /\ tphase = "done"
     /\ ~UnknownPeriodCall
     /\ SummaryDirection \in {"outgoing", "incoming", "all"}
     /\ PhoneKey \in DOMAIN tcall.kw => tcall.kw[PhoneKey] # <<>>
     /\ tout.msg # <<"connection lost">>) =>
        /\ tout.ok
        /\ tout.value.t = "dict"
        /\ \E n \in ReadingsSoFar :
              /\ tout.value.f.total =
                    [t |-> "Decimal", num |-> CentsOf(SummaryRows(n)), den |-> 100]
              /\ tout.value.f.count =
                    [t |-> "int", i |-> Cardinality(SummaryRows(n))]

\* C12 witness: subject 254700000001 has outgoing payments of 1000.00 and
\* 2000.00 this month, another subject has one too: total 3000.00, count 2
C12_Witness ==
    /\ tcall.tool = "get_spending_summary"
    /\ tphase = "done"
    /\ tout.ok
    /\ { r.id : r \in table } = {1, 2, 3}
    /\ now.mo = 1
    /\ PeriodOfCall = "this_month"
    /\ SummaryDirection = "outgoing"
    /\ PhoneKey \in DOMAIN tcall.kw
    /\ tcall.kw[PhoneKey] = P1
    /\ tout.value.f.total = [t |-> "Decimal", num |-> 300000, den |-> 100]
    /\ tout.value.f.count = [t |-> "int", i |-> 2]

\* the outgoing rows a category breakdown is about, the period resolved at n
CategoryRows(n) ==
    { r \in table :
        /\ r.direction = "outgoing"
        /\ PaidInPeriod(r, n, PeriodOfCall)
        /\ PhoneKey \in DOMAIN tcall.kw =>
              r.consumer_phone_number = tcall.kw[PhoneKey] }

\* the groups of a breakdown: what the tool returned
Breakdown == tout.value.q
GroupCents(g) == g.f.total.num

RECURSIVE SumGroupCents(_, _)
SumGroupCents(q, i) ==
    IF i > Len(q) THEN 0 ELSE GroupCents(q[i]) + SumGroupCents(q, i + 1)

GrandTotal == SumGroupCents(Breakdown, 1)

\* the share of a group, in units of 1/GrandTotal percent
ShareScaled(g) == g.f.percentage.num * (GrandTotal \div g.f.percentage.den)

RECURSIVE SumShares(_, _)
SumShares(q, i) ==
    IF i > Len(q) THEN 0 ELSE ShareScaled(q[i]) + SumShares(q, i + 1)

\* C13: get_spending_by_category considers outgoing payments only and returns
\* one group per payment-method identifier; each group's percentage is
\* total / grand_total * 100, grand_total being the sum over the returned
\* groups, so that the percentages sum to 100 when grand_total > 0; when
\* grand_total is 0 every percentage is 0.0.
C13_CategoryPercentages ==
    (/\ tcall.tool = "get_spending_by_category"
     /\ tphase = "done"
     /\ tout.ok
     /\ PhoneKey \in DOMAIN tcall.kw => tcall.kw[PhoneKey] # <<>>) =>
        /\ tout.value.t = "list"
        /\ \E n \in ReadingsSoFar :
              /\ { g.f.sender_id.s : g \in { Breakdown[i] : i \in DOMAIN Breakdown } }
                    = { r.sender_id : r \in CategoryRows(n) }
              /\ \A i \in DOMAIN Breakdown :
                    LET mine == { r \in CategoryRows(n) :
                                    r.sender_id = Breakdown[i].f.sender_id.s }
                    IN  /\ Breakdown[i].f.total =
                              [t |-> "Decimal", num |-> CentsOf(mine), den |-> 100]
                        /\ Breakdown[i].f.count =
                              [t |-> "int", i |-> Cardinality(mine)]
        /\ \A i, j \in DOMAIN Breakdown :
              i # j => Breakdown[i].f.sender_id # Breakdown[j].f.sender_id
        /\ \A i \in DOMAIN Breakdown :
              /\ Breakdown[i].f.percentage.t = "float"
              /\ Breakdown[i].f.percentage.den > 0
              /\ IF GrandTotal > 0
                 THEN Breakdown[i].f.percentage.num * GrandTotal
                         = Breakdown[i].f.percentage.den * GroupCents(Breakdown[i]) * 100
                 ELSE Breakdown[i].f.percentage.num = 0
        /\ (GrandTotal > 0) =>
              /\ \A i \in DOMAIN Breakdown :
                    GrandTotal % Breakdown[i].f.percentage.den = 0
              /\ SumShares(Breakdown, 1) = 100 * GrandTotal

\* C13 witness: two payment methods share a positive grand total unevenly
C13_Witness ==
    /\ tcall.tool = "get_spending_by_category"
    /\ tphase = "done"
    /\ tout.ok
    /\ Len(Breakdown) = 2
    /\ GrandTotal > 0
    /\ Breakdown[1].f.percentage # Breakdown[2].f.percentage
    /\ Breakdown[2].f.percentage.num > 0
    /\ \E r \in table : r.direction = "incoming"

\* C13 second case reached: a group exists and the grand total is 0
C13_ZeroTotalReached ==
    /\ tcall.tool = "get_spending_by_category"
    /\ tphase = "done"
    /\ tout.ok
    /\ Len(Breakdown) = 1
    /\ GrandTotal = 0

\* the rows get_top_recipients is about, the period resolved at n: direction
\* ("all": any), date range, subject, and a name that is not null
RecipientRows(n) ==
    { r \in table :
        /\ SummaryDirection = "all" \/ r.direction = SummaryDirection
        /\ PaidInPeriod(r, n, PeriodOfCall)
        /\ PhoneKey \in DOMAIN tcall.kw =>
              r.consumer_phone_number = tcall.kw[PhoneKey]
        /\ ~r.name.isNone }

NamedRows(n, nm) == { r \in RecipientRows(n) : r.name.s = nm }

Smaller(a, b) == IF a <= b THEN a ELSE b

\* C14: get_top_recipients returns at most `limit` groups, one per distinct
\* non-null name among the rows matching direction, date range and subject,
\* each with total = sum of amounts, count = number of rows and
\* average = total / count, in order of total descending; no group left out
\* has a larger total than a group returned.
C14_TopRecipients ==
    (/\ tcall.tool = "get_top_recipients"
     /\ tphase = "done"
     /\ tout.ok
     /\ PhoneKey \in DOMAIN tcall.kw => tcall.kw[PhoneKey] # <<>>) =>
        LET top == tout.value.q
        IN  \E n \in ReadingsSoFar :
               LET names == { r.name.s : r \in RecipientRows(n) }
                   returned == { top[i].f.name.s : i \in DOMAIN top }
               IN  /\ Len(top) = Smaller(LimitOfCall, Cardinality(names))
                   /\ returned \subseteq names
                   /\ Cardinality(returned) = Len(top)
                   /\ \A i \in DOMAIN top :
                         LET mine == NamedRows(n, top[i].f.name.s)
                             avg == top[i].f.average
                         IN  /\ top[i].f.total =
                                   [t |-> "Decimal", num |-> CentsOf(mine), den |-> 100]
                             /\ top[i].f.count =
                                   [t |-> "int", i |-> Cardinality(mine)]
                             /\ Cardinality(mine) > 0
                             /\ avg.t = "Decimal" /\ avg.den > 0
                             /\ avg.num * 100 * Cardinality(mine)
                                   = avg.den * CentsOf(mine)
                   /\ \A i, j \in DOMAIN top :
                         i < j => top[i].f.total.num >= top[j].f.total.num
                   /\ \A nm \in names \ returned : \A i \in DOMAIN top :
                         CentsOf(NamedRows(n, nm)) <= top[i].f.total.num

\* C14 witness: of two named groups the one with the larger total is the
\* single group returned for limit 1; the other one has two payments
C14_Witness ==
    /\ tcall.tool = "get_top_recipients"
    /\ tphase = "done"
    /\ tout.ok
    /\ LimitOfCall = 1
    /\ { r.id : r \in table } = {1, 2, 3}
    /\ SummaryDirection = "all"
    /\ PhoneKey \notin DOMAIN tcall.kw
    /\ PeriodOfCall = "all_time"
    /\ Len(tout.value.q) = 1
    /\ tout.value.q[1].f.name.s = <<"Airtime", " ", "Safaricom">>

\* C14, the excluded rows: a payment without a name matched every filter and
\* a group was returned
C14_NullNameReached ==
    /\ tcall.tool = "get_top_recipients"
    /\ tphase = "done"
    /\ tout.ok
    /\ SummaryDirection = "all"
    /\ PeriodOfCall = "all_time"
    /\ PhoneKey \notin DOMAIN tcall.kw
    /\ \E r \in table : r.name.isNone
    /\ Len(tout.value.q) >= 1
    /\ tout.value.q[1].f.count.i = 2

-----------------------------------------------------------------------------
(* Properties of AIService.chat, checked under SpecChat *)

\* the provider call of the request has ended
ChatEnded == chatPc \in {"done", "responded"}

\* the provider call failed: it raised, or its completion has no choice to read
ProviderFailed == ChatEnded /\ (chatProv.raised \/ chatProv.choices = 0)

\* the provider answered with an HTTP error status
ProviderStatusError ==
    /\ chatProv.raised
    /\ chatProv.cls \in {"APIStatusError", "BadRequestError", "AuthenticationError",
                         "PermissionDeniedError", "NotFoundError", "ConflictError",
                         "UnprocessableEntityError", "RateLimitError",
                         "InternalServerError"}

\* the error code and status the typed failure of the ended call has to carry
TypedFailure ==
    IF ProviderStatusError
    THEN IF chatProv.status = 402 THEN <<"insufficient_balance", 402>>
         ELSE IF chatProv.status = 429 THEN <<"rate_limit_exceeded", 429>>
         ELSE IF chatProv.status = 401 THEN <<"invalid_api_key", 500>>
         ELSE IF chatProv.status >= 500 THEN <<"service_unavailable", 503>>
         ELSE <<"api_error", chatProv.status>>
    ELSE IF chatProv.raised /\ chatProv.cls = "APITimeoutError"
    THEN <<"request_timeout", 504>>
    ELSE IF chatProv.raised /\ chatProv.cls = "APIConnectionError"
    THEN <<"service_unavailable", 503>>
    ELSE <<"internal_error", 500>>

TypedClasses ==
    {"AIServiceException", "InsufficientBalanceException", "RateLimitException",
     "InvalidAPIKeyException", "AIServiceUnavailableException", "AITimeoutException"}

\* C15: every provider failure leaves chat as one typed failure, with the error
\* code and status of its kind (402 insufficient_balance/402, 429
\* rate_limit_exceeded/429, 401 invalid_api_key/500, 5xx and connection errors
\* service_unavailable/503, timeout request_timeout/504, another provider
\* status api_error with that status, anything else 500); the HTTP response to
\* the request carries that status and code; nothing but these typed failures
\* is raised by chat
C15_TypedFailures ==
    /\ ProviderFailed =>
          /\ chatRes.kind = "raised"
          /\ chatRes.cls \in TypedClasses
          /\ <<chatRes.error_code, chatRes.status_code>> = TypedFailure
    /\ (ChatEnded /\ chatRes.kind = "raised") => chatRes.cls \in TypedClasses
    /\ (chatPc = "responded" /\ chatRes.kind = "raised") =>
          /\ httpResp.status = chatRes.status_code
          /\ httpResp.code = chatRes.error_code
          /\ httpResp.message = chatRes.message

\* a provider that rejected the credentials, answered as HTTP 500
C15_Witness ==
    /\ chatPc = "responded"
    /\ chatProv.raised
    /\ chatProv.status = 401
    /\ httpResp.status = 500
    /\ httpResp.code = "invalid_api_key"

\* the rows get_payments_by_recipient is about: the name holds the search
\* text, letter case ignored, and the subject is the one given
MatchingRows ==
    { r \in table :
        /\ ~r.name.isNone
        /\ \E i \in 0..(Len(r.name.s) - Len(tcall.kw.name)) :
              \A j \in 1..Len(tcall.kw.name) :
                 Lower(r.name.s[i + j]) = Lower(tcall.kw.name[j])
        /\ PhoneKey \in DOMAIN tcall.kw =>
              r.consumer_phone_number = tcall.kw[PhoneKey] }

\* the row of the table a returned payment was made from
RowOf(payment) == CHOOSE r \in table : r.transaction_id = payment.f.transaction_id.s

\* a was settled, and b either was not or was settled earlier
SettledBefore(a, b) ==
    /\ a.paid_at # NoDate
    /\ IF b.paid_at = NoDate THEN TRUE
       ELSE b.paid_at # a.paid_at /\ NotAfter(b.paid_at, a.paid_at)

\* C16: get_payments_by_recipient returns at most `limit` payments, all of
\* them matches of the search text and of the subject, in order of paid_at
\* descending with payments whose paid_at is null after all settled ones, so
\* that no match left out was settled while a returned one was not, or later
\* than a returned one; without a match it returns an empty sequence.
C16_MostRecentlySettled ==
    (/\ tcall.tool = "get_payments_by_recipient"
     /\ tphase = "done"
     /\ tout.ok
     /\ PhoneKey \in DOMAIN tcall.kw => tcall.kw[PhoneKey] # <<>>) =>
        LET found == tout.value.q
            returned == { RowOf(found[i]) : i \in DOMAIN found }
        IN  /\ tout.value.t = "list"
            /\ Len(found) = Smaller(LimitOfCall, Cardinality(MatchingRows))
            /\ Cardinality(returned) = Len(found)
            /\ returned \subseteq MatchingRows
            /\ \A i, j \in DOMAIN found :
                  i < j => ~SettledBefore(RowOf(found[j]), RowOf(found[i]))
            /\ \A r \in MatchingRows \ returned : \A s \in returned :
                  ~SettledBefore(r, s)

\* the granularity of the call in progress ("month" when none is given)
GranularityOfCall ==
    IF "granularity" \in DOMAIN tcall.kw THEN tcall.kw.granularity ELSE "month"

\* the rows get_payment_trends is about: outgoing, of the subject given
TrendRows ==
    { r \in table :
        /\ r.direction = "outgoing"
        /\ PhoneKey \in DOMAIN tcall.kw =>
              r.consumer_phone_number = tcall.kw[PhoneKey] }

\* the calendar day, ISO week or calendar month of an instant
CalendarUnit(dt) ==
    IF GranularityOfCall = "day" THEN <<dt.y, dt.mo, dt.d>>
    ELSE IF GranularityOfCall = "week" THEN IsoYearWeek(dt) \o <<0>>
    ELSE <<dt.y, dt.mo, 0>>

\* the calendar unit a returned bucket is labelled with
UnitOf(bucket) ==
    <<bucket.f.period.label.a, bucket.f.period.label.b, bucket.f.period.label.c>>

Labelled(bucket) == bucket.f.period.t = "str"

\* unit u is later than unit v
LaterUnit(u, v) ==
    \/ u[1] > v[1]
    \/ u[1] = v[1] /\ u[2] > v[2]
    \/ u[1] = v[1] /\ u[2] = v[2] /\ u[3] > v[3]

\* bucket x is more recent than bucket y: it is that of a later calendar
\* unit, or y is of no calendar unit at all
MoreRecent(x, y) ==
    /\ Labelled(x)
    /\ IF Labelled(y) THEN LaterUnit(UnitOf(x), UnitOf(y)) ELSE TRUE

\* the subject of the call is absent or a plain text
PlainSubject ==
    PhoneKey \in DOMAIN tcall.kw =>
        /\ tcall.kw[PhoneKey] # <<>>
        /\ \A i \in DOMAIN tcall.kw[PhoneKey] : tcall.kw[PhoneKey][i] # "'"

\* C17: get_payment_trends considers outgoing payments only, groups them by
\* the calendar day, ISO week or calendar month of paid_at, returns per bucket
\* the sum, count and average of the amounts, the most recent bucket first,
\* and returns at most `limit` buckets, the most recent ones.
C17_TrendBuckets ==
    (/\ tcall.tool = "get_payment_trends"
     /\ tphase = "done"
     /\ tout.ok
     /\ GranularityOfCall \in {"day", "week", "month"}
     /\ PlainSubject) =>
        LET trend == tout.value.q
            settled == { r \in TrendRows : r.paid_at # NoDate }
            units == { CalendarUnit(r.paid_at) : r \in settled }
            returned == { UnitOf(trend[i]) : i \in { k \in DOMAIN trend : Labelled(trend[k]) } }
        IN  /\ Len(trend) <= LimitOfCall
            /\ returned \subseteq units
            /\ \A i \in DOMAIN trend :
                  Labelled(trend[i]) =>
                     LET mine == { r \in settled :
                                     CalendarUnit(r.paid_at) = UnitOf(trend[i]) }
                         avg == trend[i].f.average
                     IN  /\ trend[i].f.total =
                               [t |-> "Decimal", num |-> CentsOf(mine), den |-> 100]
                         /\ trend[i].f.count = [t |-> "int", i |-> Cardinality(mine)]
                         /\ avg.t = "Decimal" /\ avg.den > 0
                         /\ avg.num * 100 * Cardinality(mine) = avg.den * CentsOf(mine)
            /\ \A i, j \in DOMAIN trend : i < j => MoreRecent(trend[i], trend[j])
            /\ Len(trend) < LimitOfCall => returned = units
            /\ \A u \in units \ returned : \A i \in DOMAIN trend :
                  Labelled(trend[i]) /\ LaterUnit(UnitOf(trend[i]), u)

-----------------------------------------------------------------------------
(* Further properties of FinancialAgentService.ask, checked under Spec *)

\* the plan is an object with a text (or no) answer and confidence, and each
\* of its entries is a mapping: every entry stands for one tool call
PlanOfCalls ==
    /\ PlanLoaded
    /\ parsed.answer.kind # "other"
    /\ parsed.confidence.kind # "other"
    /\ \A i \in 1..Len(parsed.items) : parsed.items[i].isMap

\* C18: when the LLM output parses to a plan, the response confidence is the
\* plan's confidence label ("medium" when it gives none) however many of its
\* tool calls failed; a confidence of "low" that the plan did not give occurs
\* only on the two whole-plan fallback paths (output that is not JSON, an
\* escaped exception).
C18_ConfidenceKept ==
    pc = "done" =>
        /\ PlanOfCalls => response.confidence = PlanConfidence
        /\ (response.confidence = "low" /\ ~(PlanLoaded /\ PlanConfidence = "low")) =>
              NotJsonText \/ Escaped

\* the number of times plan entry i was dispatched
Dispatches(i) ==
    Cardinality({ k \in DOMAIN events : events[k].kind = "start" /\ events[k].i = i })

\* one LLM call per request, no prose rewrite, no entry dispatched twice, and
\* a response exactly when the request is over
Linear ==
    /\ llmCalls = IF pc = "idle" THEN 0 ELSE 1
    /\ fmtPc = "idle" /\ fmtLlm = NoProv
    /\ \A i \in 1..(Len(events) + 1) : Dispatches(i) <= 1
    /\ \A k \in DOMAIN events : events[k].i \in 1..Len(parsed.items)
    /\ IF pc = "done" THEN response.kind = "returned" ELSE response.kind = "none"

-----------------------------------------------------------------------------
(* Properties of format_response_naturally, checked under SpecFormat *)

\* the chat-completion call of the formatter ended, and how
RewriteFailed ==
    /\ fmtPc = "done"
    /\ fmtLlm # NoProv
    /\ fmtLlm.raised \/ fmtLlm.content.isNone
RewriteSucceeded ==
    /\ fmtPc = "done"
    /\ fmtLlm # NoProv
    /\ ~fmtLlm.raised
    /\ fmtLlm.choices >= 1
    /\ ~fmtLlm.content.isNone

\* txt is full with the whitespace at both ends taken away
StrippedOf(txt, full) ==
    /\ txt # <<>> => txt[1] \notin Whitespace /\ txt[Len(txt)] \notin Whitespace
    /\ \E lead, trail \in 0..Len(full) :
          /\ lead + Len(txt) + trail = Len(full)
          /\ \A i \in 1..Len(txt) : txt[i] = full[lead + i]
          /\ \A i \in 1..lead : full[i] \in Whitespace
          /\ \A i \in (Len(full) - trail + 1)..Len(full) : full[i] \in Whitespace

\* C19: when the LLM call of format_response_naturally raises or returns null
\* content, the formatter returns the answer text of the structured answer
\* followed by "(Note: Enhanced formatting unavailable)" and does not raise;
\* when the call succeeds it returns the LLM's text stripped; the structured
\* answer passed in is left as it was.
C19_FormatFallback ==
    /\ RewriteFailed =>
          /\ fmtOut.kind = "returned"
          /\ fmtOut.text =
                fmtIn.answer \o <<"\n\n(Note: Enhanced formatting unavailable)">>
    /\ RewriteSucceeded =>
          /\ fmtOut.kind = "returned"
          /\ StrippedOf(fmtOut.text, fmtLlm.content.s)
    /\ fmtArg = fmtIn

\* C19 witness: the LLM call raised for an answer with two tool calls, and
\* the answer came back with the note
C19_Witness ==
    /\ RewriteFailed
    /\ fmtLlm.raised
    /\ Len(fmtIn.tool_calls) = 2
    /\ fmtOut.text = <<"You spent 3000 KES.",
                       "\n\n(Note: Enhanced formatting unavailable)">>

\* C19, the other cases reached: null content; a text returned with
\* whitespace at both ends and inside
C19_NullContentReached ==
    /\ RewriteFailed
    /\ ~fmtLlm.raised
    /\ fmtLlm.choices = 1
    /\ fmtOut.kind = "returned"
C19_StrippedReached ==
    /\ RewriteSucceeded
    /\ Len(fmtLlm.content.s) = 6
    /\ fmtOut.text = <<"You spent", " ", "3,000 KES.">>

-----------------------------------------------------------------------------
(* Properties of the core as a whole, checked under SpecCore *)

-----------------------------------------------------------------------------
(* Properties of _serialize_result, checked under SpecSerialize *)

\* y is x with every Decimal turned into the float of the same value and
\* every datetime into its ISO-8601 text, at every depth; mappings keep their
\* keys, sequences their length and order, other values are the same
RECURSIVE SerializedFrom(_, _)
SerializedFrom(x, y) ==
    IF x.t = "dict"
    THEN /\ y.t = "dict"
         /\ DOMAIN y.f = DOMAIN x.f
         /\ \A k \in DOMAIN x.f : SerializedFrom(x.f[k], y.f[k])
    ELSE IF x.t = "list"
    THEN /\ y.t = "list"
         /\ Len(y.q) = Len(x.q)
         /\ \A i \in 1..Len(x.q) : SerializedFrom(x.q[i], y.q[i])
    ELSE IF x.t = "Decimal"
    THEN y = [t |-> "float", num |-> x.num, den |-> x.den]
    ELSE IF x.t = "datetime"
    THEN y = [t |-> "str", iso |-> x.dt]
    ELSE y = x

\* no Decimal and no datetime is left in y at any depth
RECURSIVE JsonReady(_)
JsonReady(y) ==
    IF y.t = "dict" THEN \A k \in DOMAIN y.f : JsonReady(y.f[k])
    ELSE IF y.t = "list" THEN \A i \in 1..Len(y.q) : JsonReady(y.q[i])
    ELSE y.t \notin {"Decimal", "datetime"}

\* the depth at which x holds a Decimal or a datetime (0: none)
RECURSIVE ConvertedDepth(_)
ConvertedDepth(x) ==
    LET parts == IF x.t = "dict" THEN { x.f[k] : k \in DOMAIN x.f }
                 ELSE IF x.t = "list" THEN { x.q[i] : i \in 1..Len(x.q) }
                 ELSE {}
        below == { ConvertedDepth(p) : p \in parts } \ {0}
    IN  IF x.t \in {"Decimal", "datetime"} THEN 1
        ELSE IF below = {} THEN 0
        ELSE 1 + CHOOSE d \in below : \A e \in below : e <= d

\* C22: _serialize_result turns every Decimal into a float and every
\* timestamp into ISO-8601 text at any nesting depth, keeps the keys of every
\* mapping and the length and order of every sequence, leaves every other
\* value unchanged, and is idempotent: applied to its own result it returns
\* that result.
C22_SerializeStructure ==
    serPc \in {"once", "twice"} =>
        /\ SerializedFrom(serIn, serOut)
        /\ JsonReady(serOut)

\* C22 witness: a result with an amount or a timestamp two levels down, in a
\* sequence of two, has been serialized twice
C22_Witness ==
    /\ serPc = "twice"
    /\ serIn.t = "list"
    /\ Len(serIn.q) = 2
    /\ ConvertedDepth(serIn) = 3
    /\ serOut # serIn

-----------------------------------------------------------------------------
(* Further properties of the tools, checked under SpecTools *)

\* C23: get_spending_summary called with a direction outside {outgoing,
\* incoming, all} raises ValueError instead of returning a summary.
C23_DirectionRejected ==
    (/\ tcall.tool = "get_spending_summary"
     /\ tphase = "done"
     /\ SummaryDirection \notin {"outgoing", "incoming", "all"}) =>
        /\ ~tout.ok
        /\ tout.exc \in {"ValueError", "OperationalError"}
        /\ tout.exc = "OperationalError" => tout.msg = <<"connection lost">>

\* the label names the calendar month (month > 0) or year (month = 0) that
\* holds the instant dt
LabelHolds(label, dt) ==
    /\ dt.t = "datetime"
    /\ label.text = ""
    /\ label.year = dt.dt.y
    /\ label.month # 0 => label.month = dt.dt.mo

\* C26: in every get_spending_summary result the period label names the
\* calendar month or year that contains the returned start_date and end_date,
\* however the wall clock advances while the request is in flight.
C26_LabelMatchesRange ==
    (/\ tcall.tool = "get_spending_summary"
     /\ tphase = "done"
     /\ tout.ok
     /\ PeriodOfCall \in {"this_month", "last_month", "this_year", "last_year"}) =>
        /\ LabelHolds(tout.value.f.period.label, tout.value.f.start_date)
        /\ LabelHolds(tout.value.f.period.label, tout.value.f.end_date)

-----------------------------------------------------------------------------
(* Further properties of ask, checked under Spec *)

\* C24: the confidence of every response of ask is one of "high", "medium",
\* "low", whatever confidence value the plan of the LLM contains.
C24_ConfidenceLevels ==
    response.kind = "returned" =>
        response.confidence \in {"high", "medium", "low"}

\* a plan entry that is malformed: not a mapping, without a tool name (no
\* "tool" key, or null), or with a params value that is no mapping
MalformedEntry(e) == ~e.isMap \/ e.tool.isNone \/ e.params.kind = "notdict"

\* C25: a malformed plan entry fails alone: it is recorded as a tool-call
\* record with result.error, the records of the other entries are kept, and
\* the response carries the answer and the confidence of the plan.
C25_MalformedEntryAlone ==
    (/\ pc = "done"
     /\ PlanLoaded
     /\ parsed.answer.kind # "other"
     /\ parsed.confidence.kind # "other") =>
        \A i \in 1..Len(parsed.items) :
            MalformedEntry(parsed.items[i]) =>
                /\ response.kind = "returned"
                /\ Len(response.tool_calls) = Len(parsed.items)
                /\ IsErrorRecord(response.tool_calls[i])
                /\ response.answer = PlanAnswer
                /\ response.confidence = PlanConfidence

\* the params of plan entry i as the plan gives them ({} when it gives none)
OwnParams(i) ==
    IF parsed.items[i].params.kind = "absent" THEN Params("dict", EmptyKw)
    ELSE parsed.items[i].params

\* C29: when the caller of ask supplies no subject filter (null or the empty
\* string), no consumer_phone_number is added: the parameters dispatched and
\* recorded are exactly the plan's own, a consumer_phone_number of a plan
\* entry scopes its query, and an entry without one queries all consumers.
C29_NoFilterAdded ==
    (~Truthy(reqPhone) /\ PlanLoaded) =>
        /\ \A k \in DOMAIN events : events[k].params = OwnParams(events[k].i)
        /\ \A k \in DOMAIN tool_calls :
              tool_calls[k].params = OwnParams(k).kw
        /\ \A k \in DOMAIN response.tool_calls :
              response.tool_calls[k].params = OwnParams(k).kw
        /\ pc = "tool" =>
              /\ tcall.kw = OwnParams(idx).kw
              /\ tquery.phone = PhoneArg(OwnParams(idx).kw)
              /\ PhoneKey \notin DOMAIN OwnParams(idx).kw => tquery.phone = None

\* C29 witness: the caller passed the empty string; the entry the plan scoped
\* to 254700000002 is recorded with that subject, and the entry without a
\* subject is recorded without one
C29_Witness ==
    /\ pc = "done"
    /\ reqPhone = Some(<<>>)
    /\ PlanLoaded
    /\ Len(response.tool_calls) = 2
    /\ \E i, j \in DOMAIN response.tool_calls :
          /\ PhoneKey \in DOMAIN response.tool_calls[i].params
          /\ response.tool_calls[i].params[PhoneKey] = P2
          /\ PhoneKey \notin DOMAIN response.tool_calls[j].params
          /\ ~IsErrorRecord(response.tool_calls[j])

\* the same with no filter at all (null)
C29_NullFilterReached ==
    /\ pc = "done"
    /\ reqPhone = None
    /\ PlanLoaded
    /\ \E i \in DOMAIN response.tool_calls :
          /\ PhoneKey \in DOMAIN response.tool_calls[i].params
          /\ response.tool_calls[i].params[PhoneKey] = P2

-----------------------------------------------------------------------------
(* Relations between tool results, checked under SpecTools *)

\* the total (in cents) and the count of the spending summary for a direction,
\* over the date range and the subject of the query in flight
SummaryTotalFor(direction) ==
    { OrZero(res.value.f.total).num :
        res \in get_total_by_period(table, tquery.start, tquery.end, direction,
                                    tquery.phone) }
SummaryCountFor(direction) ==
    { res.value.f.count.i :
        res \in get_total_by_period(table, tquery.start, tquery.end, direction,
                                    tquery.phone) }

\* C27: the spending summary for direction "all" covers the incoming and the
\* outgoing payments and nothing else: its total and count are the sums of the
\* totals and counts of the "outgoing" and the "incoming" summaries for the
\* same period and subject.
C27_AllIsOutgoingPlusIncoming ==
    (/\ tcall.tool = "get_spending_summary"
     /\ tphase = "done"
     /\ tout.ok
     /\ SummaryDirection = "all") =>
        /\ \A o \in SummaryTotalFor("outgoing"), i \in SummaryTotalFor("incoming") :
              tout.value.f.total = Money(o + i)
        /\ \A o \in SummaryCountFor("outgoing"), i \in SummaryCountFor("incoming") :
              tout.value.f.count = IntV(o + i)

\* the query in flight is over a bounded period / over all time
BoundedQuery == tquery.start # NoDate /\ tquery.end # NoDate
AllTimeQuery == tquery.start = NoDate /\ tquery.end = NoDate

\* the rows of direction dir and of the subject of the query that the period
\* of the query counts: all of them over all time, over a bounded period those
\* whose paid_at is not null and lies in [start, end]
Counted(dir) ==
    { r \in table :
        /\ DirectionFilter(r, dir)
        /\ PhoneFilter(r, tquery.phone)
        /\ BoundedQuery =>
              /\ r.paid_at # NoDate
              /\ NotAfter(tquery.start, r.paid_at)
              /\ NotAfter(r.paid_at, tquery.end) }

\* the all_time total (in cents) for the direction and the subject of the query
AllTimeCents(dir) ==
    { res.value.f.total.num :
        res \in get_total_by_period(table, NoDate, NoDate, dir, tquery.phone) }

\* a tool of the three has returned a result computed from the database
PeriodToolDone(tool) ==
    /\ tcall.tool = tool
    /\ tphase = "done"
    /\ tout.ok
    /\ BoundedQuery \/ AllTimeQuery

\* C28: spending summary, top recipients and spending by category count, for
\* a bounded period, only the payments whose paid_at is not null and lies in
\* [start, end], and for all_time every payment, those with null paid_at
\* included; the total of a bounded period never exceeds the all_time total
\* for the same direction and subject.
C28_PeriodCounting ==
    /\ PeriodToolDone("get_spending_summary") =>
          /\ tout.value.f.total = Money(SumAmount(Counted(tquery.direction)))
          /\ tout.value.f.count = IntV(Cardinality(Counted(tquery.direction)))
          /\ \A a \in AllTimeCents(tquery.direction) : tout.value.f.total.num <= a
    /\ PeriodToolDone("get_top_recipients") =>
          \A i \in DOMAIN tout.value.q :
              LET g == tout.value.q[i].f
                  rows == { r \in Counted(tquery.direction) :
                              ~r.name.isNone /\ r.name.s = g.name.s }
              IN  /\ g.total = Money(SumAmount(rows))
                  /\ g.count = IntV(Cardinality(rows))
    /\ PeriodToolDone("get_spending_by_category") =>
          /\ \A i \in DOMAIN tout.value.q :
                LET g == tout.value.q[i].f
                    rows == { r \in Counted("outgoing") : r.sender_id = g.sender_id.s }
                IN  /\ g.total = Money(SumAmount(rows))
                    /\ g.count = IntV(Cardinality(rows))
          /\ { tout.value.q[i].f.sender_id.s : i \in DOMAIN tout.value.q } =
                { r.sender_id : r \in Counted("outgoing") }

\* C28 witness: a summary of this month over a table holding a payment of the
\* subject that is not settled and one settled this month: only the settled
\* one is counted
C28_Witness ==
    /\ PeriodToolDone("get_spending_summary")
    /\ BoundedQuery
    /\ \E r \in table : /\ r.paid_at = NoDate
                        /\ DirectionFilter(r, tquery.direction)
                        /\ PhoneFilter(r, tquery.phone)
                        /\ r.amount > 0
    /\ tout.value.f.count = IntV(1)
    /\ \A a \in AllTimeCents(tquery.direction) : tout.value.f.total.num < a

\* over all time the payment that is not settled is counted
C28_AllTimeReached ==
    /\ PeriodToolDone("get_spending_summary")
    /\ AllTimeQuery
    /\ \E r \in Counted(tquery.direction) : r.paid_at = NoDate
    /\ tout.value.f.count = IntV(Cardinality(Counted(tquery.direction)))

\* the granularity and the limit of a get_payment_trends call
TrendGranularity ==
    IF "granularity" \in DOMAIN tcall.kw THEN tcall.kw["granularity"] ELSE "month"
TrendLimit ==
    IF "limit" \in DOMAIN tcall.kw THEN tcall.kw["limit"] ELSE DefaultTrendLimit

\* what the repository may answer for granularity "month", the limit and the
\* subject of the call
MonthAnswers ==
    get_trend_data(table, "month", TrendLimit, PhoneArg(tcall.kw))

\* C30: get_payment_trends called with a granularity outside {day, week,
\* month} does not fail: it returns the same buckets as granularity "month"
\* for the same limit and subject filter.
C30_UnknownGranularityIsMonth ==
    (/\ tcall.tool = "get_payment_trends"
     /\ tphase = "done"
     /\ TrendGranularity \notin {"day", "week", "month"}
     /\ TrendLimit \in 1..MaxTrendLimit
     /\ tout.msg # <<"connection lost">>) =>
        /\ \E res \in MonthAnswers :
              IF res.ok THEN tout.ok /\ tout.value = res.value
              ELSE ~tout.ok /\ tout.exc = res.exc /\ tout.msg = res.msg
        /\ tout.ok =>
              \A i \in DOMAIN tout.value.q :
                  LET g == tout.value.q[i].f
                  IN  g.period # NoneV =>
                        g.count = IntV(Cardinality(
                            { r \in table :
                                /\ WhereHolds(TrendWhere(PhoneArg(tcall.kw)), r)
                                /\ r.paid_at # NoDate
                                /\ r.paid_at.y = g.period.label.a
                                /\ r.paid_at.mo = g.period.label.b }))
        /\ (\A res \in MonthAnswers : res.ok) => tout.ok

\* C30 witness: granularity "fortnight" over payments of two months, two of
\* them on different days of one month: two buckets, one with both payments
C30_Witness ==
    /\ tcall.tool = "get_payment_trends"
    /\ tphase = "done"
    /\ TrendGranularity = "fortnight"
    /\ tout.ok
    /\ Len(tout.value.q) = 2
    /\ \E i \in DOMAIN tout.value.q :
          /\ tout.value.q[i].f.count = IntV(2)
          /\ \E r1, r2 \in table : /\ r1.paid_at # NoDate /\ r2.paid_at # NoDate
                                   /\ r1.paid_at.mo = r2.paid_at.mo
                                   /\ r1.paid_at.d # r2.paid_at.d
                                   /\ r1.direction = "outgoing"
                                   /\ r2.direction = "outgoing"

====
